---- MODULE Spec2Model ----
(***************************************************************************)
(* A model of the Estaff resume-to-index pipeline and of the filtered      *)
(* retrieval / evaluation engine.                                          *)
(*                                                                         *)
(*   Spec        the vector-index refresh job: get_candidates_from_db,     *)
(*               ResumeProcessor.process_resumes_batch (with the tenacity  *)
(*               retry around _call_llm_and_parse and the JSON repair      *)
(*               call), convert_to_documents and                           *)
(*               VectorStoreService.create_or_update_collection.           *)
(*   SpecSearch  one search request: search_with_filter, the resolution of *)
(*               the matches against the candidates table, the evaluation  *)
(*               call and _parse_llm_response.                             *)
(*   SpecConvert convert_to_documents and the write to the collection on   *)
(*               any list of extraction entries.                           *)
(*   SpecParse   the extraction of one resume on any answer of the model.  *)
(*   SpecStatus  get_collection_info on what the store can answer.         *)
(*   SpecService the web service: refresh tasks in threads of their own,   *)
(*               started while others run, next to a search request.       *)
(*   SpecDb      update_postgres_database: preprocess_data and the upsert  *)
(*               of insert_candidates into the table candidates.           *)
(*   SpecRow     build_resume_row on one record, with or without markup.   *)
(***************************************************************************)
EXTENDS Integers, Sequences, FiniteSets, TLC

VARIABLES
    \* ---- stores shared by the two services
    table,            \* ids of the rows of the PostgreSQL table candidates
    index,            \* the points of the Qdrant collection
    next_uuid,        \* stands for uuid4(): the next unused point id
    \* ---- the refresh job (update_vector_db_task / scripts.update_vector_db.main)
    pc,               \* position of the job
    jobs,             \* refresh jobs started so far
    job_result,       \* outcome of the last finished job
    df,               \* the rows the job loaded, in order
    pos,              \* position of the for loop of process_resumes_batch in df
    attempt,          \* tenacity's attempt number of _call_llm_and_parse
    raw_text,         \* the first response, kept for the repair prompt
    calls,            \* chat-model calls of the resume calls_of, in order
    calls_of,         \* the position in df the log calls belongs to
    item_status,      \* per attempted resume: how process_resume ended
    parsed_results,   \* the list process_resumes_batch builds
    documents,        \* the list convert_to_documents returned
    \* ---- one search request (CandidateSearchService.search_candidates)
    spc,              \* position of the request
    request,          \* k, experience_years_min, grade
    docs_with_scores, \* what search_with_filter returned
    candidates_contexts, \* one context per resolved match
    llm_calls,        \* evaluation calls made for the request
    response,         \* result.content: the value the model answered, and
                      \* how it wrote it down (Written(response) is the text)
    outcome,          \* how search_candidates ended, and its return value
    \* ---- the web service around them (api/routes.py)
    tasks,            \* the background refresh tasks, each in its own thread
    health,           \* what the last requests.get of check_connection answered
    info,             \* the last GET /collection/status: the store's answer,
                      \* and what get_collection_info made of it
    \* ---- the loader of the candidates table (services/data_loader.py)
    candidates,       \* the rows of the table candidates, with their values
    csv_df,           \* the records update_postgres_database read from disk
    update_result,    \* how update_postgres_database ended
    \* ---- df.apply(build_resume_row, axis=1)
    resumes,          \* the rows of the DataFrame, in order
    html_resume       \* the column built so far: one text per row

storeVars  == <<table, index, next_uuid>>
ingestVars == <<pc, jobs, job_result, df, pos, attempt, raw_text, calls,
                calls_of, item_status, parsed_results, documents>>
searchVars == <<spc, request, docs_with_scores, candidates_contexts,
                llm_calls, response, outcome>>
serviceVars == <<tasks, health, info>>
loaderVars == <<candidates, csv_df, update_result, resumes, html_resume>>
vars == <<storeVars, ingestVars, searchVars, serviceVars, loaderVars>>

(***************************************************************************)
(* Bounds of the model.                                                    *)
(***************************************************************************)
MaxResumes   == 2    \* rows of the candidates table in a refresh
MaxRefreshes == 2    \* refresh jobs run one after the other
MaxItems     == 2    \* entries of the list the evaluation model returns
MaxK         == 2    \* largest k of a search request
MaxEntries   == 3    \* entries of a list handed to convert_to_documents
MaxTasks     == 2    \* refresh tasks started while the service is up

(***************************************************************************)
(* Optional values: None, or Some(x).                                      *)
(***************************************************************************)
None == <<>>
Some(x) == <<x>>
IsNone(o) == o = <<>>
Val(o) == o[1]

\* A value that is there and is no string (a number, a list), and the test
\* isinstance(o, str) of a value that may be None, a string, or neither.
NonString == <<"7", "int">>
IsStr(o) == Len(o) = 1

Range(s) == {s[j] : j \in 1..Len(s)}

Min(a, b) == IF a <= b THEN a ELSE b

RECURSIVE SeqsUpTo(_, _)
\* All sequences over S of length at most n.
SeqsUpTo(S, n) ==
    IF n = 0 THEN {<<>>}
    ELSE LET shorter == SeqsUpTo(S, n - 1)
         IN shorter \cup {Append(s, x) : s \in {t \in shorter : Len(t) = n - 1}, x \in S}

(***************************************************************************)
(* The chat model's answers to the extraction and repair prompts.          *)
(* An answer is a text; of the text the model keeps what                   *)
(* PydanticOutputParser(CandidateMetadata).parse reads: whether it is a    *)
(* JSON object with the required keys of the right types (json), and the   *)
(* fields the validators of CandidateMetadata constrain.  Years of         *)
(* experience are whole numbers here; languages is the list of the levels  *)
(* of the LanguageSkill entries.                                           *)
(***************************************************************************)
Grades == {"Intern", "Junior", "Middle", "Senior", "Lead", "Head"}
Levels == {"A1", "A2", "B1", "B2", "C1", "C2", "Native"}

RawOutputWith(js, cid, years, grade, languages, text) ==
    [json |-> js, candidate_id |-> cid, experience_years |-> years,
     grade |-> grade, languages |-> languages, embedding_text |-> text]

\* An output without languages (default_factory=list).
RawOutput(js, cid, years, grade, text) ==
    RawOutputWith(js, cid, years, grade, <<>>, text)

RawOutputs ==
    { RawOutput(TRUE, 1, Some(5), Some("Senior"), Some("python backend")),
      RawOutput(TRUE, 2, Some(2), Some("Lead"), Some("java team lead")),
      RawOutput(FALSE, 1, Some(5), Some("Senior"), Some("python backend")),
      RawOutput(TRUE, 1, Some(5), Some("Expert"), Some("python backend")),
      RawOutput(TRUE, 2, Some(0 - 1), None, Some("java team lead")),
      RawOutput(TRUE, 2, Some(2), Some("Lead"), None) }

\* Field(pattern=r"^(Intern|Junior|Middle|Senior|Lead|Head)?$") on Optional[str]
GradeOk(g) == IsNone(g) \/ Val(g) \in Grades \cup {""}

\* Field(ge=0) on Optional[float]
ExperienceOk(y) == IsNone(y) \/ Val(y) >= 0

\* Field(pattern=r"^(A[12]|B[12]|C[12]|Native)?$") on Optional[str]
LevelOk(l) == IsNone(l) \/ Val(l) \in Levels \cup {""}

\* embedding_text: str, required: a string, whatever its length
TextOk(t) == ~IsNone(t) /\ IsStr(t)

\* self.output_parser.parse(text) returns (TRUE) or raises (FALSE)
ParseOk(text) ==
    /\ text.json
    /\ ExperienceOk(text.experience_years)
    /\ GradeOk(text.grade)
    /\ \A j \in 1..Len(text.languages) : LevelOk(text.languages[j])
    /\ TextOk(text.embedding_text)

\* parsed.model_dump(): the dict of the validated CandidateMetadata
ModelDump(text) ==
    [type |-> "dict",
     candidate_id |-> text.candidate_id,
     experience_years |-> text.experience_years,
     grade |-> text.grade,
     languages |-> text.languages,
     embedding_text |-> text.embedding_text]

NoText == RawOutput(FALSE, 0, None, None, None)
NoMetadata == ModelDump(NoText)

(***************************************************************************)
(* @retry(stop=stop_after_attempt(3), wait=wait_fixed(1)) around           *)
(* _call_llm_and_parse: tenacity's default retry condition is "the call    *)
(* raised", whatever it raised, and the decorated function is the whole    *)
(* extraction-and-repair body.                                             *)
(***************************************************************************)
MaxAttempts == 3

\* As stop_after_attempt, stopping one attempt later.
stop_after_attempt_late(a) == a > MaxAttempts

stop_after_attempt(a) == a >= MaxAttempts

\* What self.llm.invoke can do: raise a transport-level error (time-out,
\* connection error), or return a text.
LlmResults == {[raised |-> TRUE, text |-> NoText]}
                  \cup {[raised |-> FALSE, text |-> t] : t \in RawOutputs}

\* How a call is logged: by its prompt and by what came of it.
CallOutcome(res) == IF res.raised THEN "transport"
                    ELSE IF ParseOk(res.text) THEN "parsed" ELSE "unparseable"

Call(kind, res) == [kind |-> kind, outcome |-> CallOutcome(res)]

\* As call_llm_and_parse, but the parse of the fixed JSON is not returned:
\* the body raises after every repair call.
call_llm_and_parse_repair_lost(stage, res) ==
    IF stage = "extract"
    THEN IF res.raised THEN "raise"
         ELSE IF ParseOk(res.text) THEN "return"
         ELSE "repair"
    ELSE "raise"

\* The body of _call_llm_and_parse at the call stage whose result is res:
\* "return" the parsed metadata, go on to the "repair" call, or "raise".
call_llm_and_parse(stage, res) ==
    IF stage = "extract"
    THEN IF res.raised THEN "raise"                 \* llm.invoke raised
         ELSE IF ParseOk(res.text) THEN "return"    \* first parse succeeded
         ELSE "repair"                              \* except: _fix_json_with_llm
    ELSE IF res.raised THEN "raise"                 \* the repair call raised
         ELSE IF ParseOk(res.text) THEN "return"    \* parse of the fixed JSON
         ELSE "raise"                               \* except Exception as e2: raise

\* tenacity after the body raised in attempt a: call the body again, or give
\* up and raise RetryError to the caller.
retry(a) == IF stop_after_attempt(a) THEN "give_up" ELSE "again"

\* How process_resume ended for the row at input position p.
ItemStatus(row, status, metadata) ==
    [row |-> row, status |-> status, metadata |-> metadata]

\* As process_resumes_batch, without the try/except around process_resume:
\* the exception of a failed item ends the batch and the job.
process_resumes_batch_no_except(status, p, n) ==
    IF status = "Failed" THEN "idle"
    ELSE IF p < n THEN "extract" ELSE "convert"

\* The for loop of process_resumes_batch after the item at position p of n
\* ended with status: try/except Exception around process_resume, then on to
\* the next item, and to the return after the last one.
process_resumes_batch(status, p, n) == IF p < n THEN "extract" ELSE "convert"

\* parsed_results after an item: append on success, skip on failure.
Collected(results, status, metadata) ==
    IF status = "Success" THEN Append(results, metadata) ELSE results

\* The chat-model log after one more call: a resume's log starts with its
\* first extraction call.
Logged(entry) == IF pc = "extract" /\ attempt = 1 THEN <<entry>>
                 ELSE Append(calls, entry)

(***************************************************************************)
(* convert_to_documents on the entries of parsed_results.  In the refresh   *)
(* job every entry is the model_dump of a validated CandidateMetadata; the  *)
(* method itself takes any list: an entry has a type ("dict"; "empty" for   *)
(* {} and other falsy values; "other" for what is no dict), and a dict may  *)
(* lack embedding_text or hold something else than a string there.          *)
(***************************************************************************)
\* As Convertible, without the test isinstance(embedding_text, str).
Convertible_text_present(item) ==
    item.type = "dict" /\ ~IsNone(item.embedding_text)

\* if not item / not isinstance(item, dict) / embedding_text is None /
\* not isinstance(embedding_text, str): skip
Convertible(item) ==
    /\ item.type # "empty"
    /\ item.type = "dict"
    /\ ~IsNone(item.embedding_text)
    /\ IsStr(item.embedding_text)

\* Document(page_content=embedding_text, metadata={the other keys})
Document(item) ==
    [page_content |-> Val(item.embedding_text),
     metadata |-> [candidate_id |-> Some(item.candidate_id),
                   experience_years |-> item.experience_years,
                   grade |-> item.grade,
                   languages |-> item.languages]]

RECURSIVE convert_to_documents(_)
convert_to_documents(results) ==
    IF results = <<>> THEN <<>>
    ELSE LET rest == convert_to_documents(Tail(results))
         IN IF Convertible(Head(results))
            THEN <<Document(Head(results))>> \o rest
            ELSE rest

(***************************************************************************)
(* QdrantVectorStore.from_documents(url, collection_name, embedding,       *)
(* documents): no ids are passed and the Documents carry none, so every    *)
(* document is written as a new point under a fresh uuid4; the collection  *)
(* is created when missing and otherwise kept (no force_recreate).         *)
(***************************************************************************)
Point(id, doc) == [id |-> id, page_content |-> doc.page_content,
                   metadata |-> doc.metadata]

\* The points written for the first n documents, ids from first on.
from_documents(docs, n, first) ==
    {Point(first + j - 1, docs[j]) : j \in 1..n}

\* requests.get(.../collections): the store answers status ok, answers
\* something else, or cannot be reached.
HealthAnswers == {"ok", "not_ok", "unreachable"}

\* check_connection: True, False, or raise ConnectionError
check_connection(answer) ==
    IF answer = "ok" THEN "true"
    ELSE IF answer = "not_ok" THEN "false" ELSE "raise"

(***************************************************************************)
(* The refresh job.                                                        *)
(***************************************************************************)
RECURSIVE Ascending(_)
\* The rows of a table as the SELECT returns them.
Ascending(S) ==
    IF S = {} THEN <<>>
    ELSE LET m == CHOOSE x \in S : \A y \in S : x <= y
         IN <<m>> \o Ascending(S \ {m})

JobReset ==
    /\ pos' = 1
    /\ attempt' = 1
    /\ raw_text' = NoText
    /\ calls' = <<>>
    /\ calls_of' = 0
    /\ item_status' = <<>>
    /\ parsed_results' = <<>>
    /\ documents' = <<>>

\* get_candidates_from_db raised: the job ends before any resume is read.
StartRefreshDbDown ==
    /\ pc = "idle"
    /\ jobs < MaxRefreshes
    /\ jobs' = jobs + 1
    /\ df' = <<>>
    /\ JobReset
    /\ pc' = "idle"
    /\ job_result' = "failed"
    /\ UNCHANGED <<loaderVars, storeVars, searchVars, serviceVars>>

\* df = get_candidates_from_db(); process_resumes_batch(df) starts.  On an
\* empty frame df.apply(build_resume_row, axis=1) yields a frame, and the
\* assignment to df["html_resume"] raises or not with the pandas version.
StartRefresh ==
    /\ pc = "idle"
    /\ jobs < MaxRefreshes
    /\ jobs' = jobs + 1
    /\ df' = Ascending(table)
    /\ JobReset
    /\ IF table # {}
       THEN pc' = "extract" /\ job_result' = "running"
       ELSE \/ pc' = "idle" /\ job_result' = "failed"
            \/ pc' = "convert" /\ job_result' = "running"
    /\ UNCHANGED <<loaderVars, storeVars, searchVars, serviceVars>>

\* The item at pos ended: the loop appends or skips, and goes on.
FinishItem(status, metadata) ==
    /\ item_status' = Append(item_status, ItemStatus(df[pos], status, metadata))
    /\ parsed_results' = Collected(parsed_results, status, metadata)
    /\ pc' = process_resumes_batch(status, pos, Len(df))
    /\ pos' = IF pc' = "extract" THEN pos + 1 ELSE pos
    /\ attempt' = 1
    /\ raw_text' = NoText

\* The body of _call_llm_and_parse raised in this attempt.
BodyRaised ==
    IF retry(attempt) = "again"
    THEN /\ attempt' = attempt + 1
         /\ pc' = "extract"
         /\ raw_text' = NoText
         /\ UNCHANGED <<pos, item_status, parsed_results>>
    ELSE FinishItem("Failed", NoMetadata)

\* One chat-model call of the current resume, and what follows it up to the
\* next call.
LlmCall(stage, res) ==
    /\ pc = stage
    /\ calls' = Logged(Call(stage, res))
    /\ calls_of' = pos
    /\ LET next == call_llm_and_parse(stage, res)
       IN CASE next = "return" -> FinishItem("Success", ModelDump(res.text))
            [] next = "repair" -> /\ pc' = "repair"
                                  /\ raw_text' = res.text
                                  /\ UNCHANGED <<pos, attempt, item_status,
                                                 parsed_results>>
            [] OTHER -> BodyRaised
    /\ UNCHANGED <<loaderVars, storeVars, searchVars, serviceVars, jobs, job_result, df, documents>>

\* result = self.llm.invoke(messages), line 222
ExtractCall == \E res \in LlmResults : LlmCall("extract", res)

\* fixed = self.llm.invoke(messages) in _fix_json_with_llm, line 216
RepairCall == \E res \in LlmResults : LlmCall("repair", res)

\* documents = resume_processor.convert_to_documents(parsed_results)
Convert ==
    /\ pc = "convert"
    /\ documents' = convert_to_documents(parsed_results)
    /\ IF documents' = <<>>
       THEN pc' = "idle" /\ job_result' = "failed"   \* ValueError
       ELSE pc' = "upsert" /\ UNCHANGED job_result
    /\ UNCHANGED <<loaderVars, storeVars, searchVars, serviceVars, jobs, df, pos, attempt, raw_text,
                   calls, calls_of, item_status, parsed_results>>

\* create_or_update_collection(documents): the health check, whose result is
\* not read, then from_documents, which writes every document or raises
\* after it wrote some of them.
Upsert ==
    /\ pc = "upsert"
    /\ \E answer \in HealthAnswers :
          /\ health' = answer
          /\ IF check_connection(answer) = "raise"
             THEN /\ job_result' = "failed"
                  /\ UNCHANGED <<index, next_uuid>>
             ELSE \E n \in 0..Len(documents) :
                  /\ index' = index \cup from_documents(documents, n, next_uuid)
                  /\ next_uuid' = next_uuid + n
                  /\ job_result' = IF n = Len(documents) THEN "ok" ELSE "failed"
    /\ pc' = "idle"
    /\ UNCHANGED <<loaderVars, table, searchVars, tasks, info, jobs, df, pos, attempt,
                   raw_text, calls, calls_of, item_status, parsed_results,
                   documents>>

(***************************************************************************)
(* The evaluation answer of the chat model, as JSON values.                *)
(*                                                                         *)
(* An entry of a list is a JSON object with (some of) the keys of          *)
(* CandidateEvaluation, or something that is no object.  A field of an     *)
(* object is absent, null, a string, or a number; a string may spell a     *)
(* whole number.                                                           *)
(***************************************************************************)
Absent == [ty |-> "absent", s |-> "", n |-> 0]
Null == [ty |-> "null", s |-> "", n |-> 0]
Str(s) == [ty |-> "str", s |-> s, n |-> 0]
Num(n) == [ty |-> "int", s |-> "", n |-> n]
NumStr(n) == [ty |-> "numstr", s |-> "", n |-> n]   \* the string "7"

Dict(name, phone, location, hard, domain, relevance, explanation) ==
    [kind |-> "dict", name |-> name, phone |-> phone, location |-> location,
     hard_skills_score |-> hard, domain_skills_score |-> domain,
     relevance_score |-> relevance, relevance_explanation |-> explanation]

\* A list entry that is no JSON object (a number, a string, null, a list).
Scalar == [kind |-> "scalar", name |-> Absent, phone |-> Absent,
           location |-> Absent, hard_skills_score |-> Absent,
           domain_skills_score |-> Absent, relevance_score |-> Absent,
           relevance_explanation |-> Absent]

Ann == Dict(Str("Ann"), Str("+375-1"), Str("Minsk"), Num(7), Num(5), Num(9), Str("fits"))
Bob == Dict(Str("Bob"), Str("+375-2"), Str("Brest"), Num(1), NumStr(10), Num(3), Str("weak"))
Cid == Dict(Str("Cid"), Str("+375-3"), Str("Minsk"), Num(11), Num(5), Num(9), Str("great"))
Dan == Dict(Str("Dan"), Num(3754), Str("Minsk"), Num(4), Num(2), Num(2), Str("poor"))
Eve == Dict(Str("Eve"), Str("+375-5"), Str("Minsk"), Num(6), Num(6), Absent, Str("ok"))
Fox == Dict(Str("Fox"), Str("+375-6"), Str("Minsk"), Num(6), Num(0), Num(6), Str("ok"))
Gus == Dict(Str("Gus"), Str("+375-7"), Str("Minsk"), Str("high"), Num(5), Num(6), Str("ok"))

\* The entries the lists are made of, and entries that come alone.
ItemPool == {Ann, Bob, Cid, Scalar}
LoneItems == {Dan, Eve, Fox, Gus}

\* name: str and the other str fields: required, and a string (pydantic 2
\* does not turn a number into a str).
StrFieldOk(f) == f.ty = "str"

\* int with Field(ge=1, le=10): required; an int, or in pydantic's lax mode
\* a string that spells one; then within 1..10.
ScoreFieldOk(f) == f.ty \in {"int", "numstr"} /\ 1 <= f.n /\ f.n <= 10

\* CandidateEvaluation(**item) does not raise
Validates(item) ==
    /\ item.kind = "dict"
    /\ StrFieldOk(item.name)
    /\ StrFieldOk(item.phone)
    /\ StrFieldOk(item.location)
    /\ ScoreFieldOk(item.hard_skills_score)
    /\ ScoreFieldOk(item.domain_skills_score)
    /\ ScoreFieldOk(item.relevance_score)
    /\ StrFieldOk(item.relevance_explanation)

\* The CandidateEvaluation built from a valid item.
CandidateEvaluation(item) ==
    [type |-> "CandidateEvaluation",
     name |-> item.name.s, phone |-> item.phone.s, location |-> item.location.s,
     hard_skills_score |-> item.hard_skills_score.n,
     domain_skills_score |-> item.domain_skills_score.n,
     relevance_score |-> item.relevance_score.n,
     relevance_explanation |-> item.relevance_explanation.s,
     raw |-> Scalar]

\* A list element that was put into the result as it was.
Unvalidated(item) ==
    [type |-> "object", name |-> "", phone |-> "", location |-> "",
     hard_skills_score |-> 0, domain_skills_score |-> 0, relevance_score |-> 0,
     relevance_explanation |-> "", raw |-> item]

(***************************************************************************)
(* JSON values: a list of entries, an object (its key/value pairs in       *)
(* order), a string (empty or not), a number, null.                        *)
(***************************************************************************)
JList(items) == [t |-> "list", items |-> items, keys |-> <<>>, vals |-> <<>>]
JStr(chars) == [t |-> "str", items |-> chars, keys |-> <<>>, vals |-> <<>>]
JNumber == [t |-> "number", items |-> <<>>, keys |-> <<>>, vals |-> <<>>]
JNull == [t |-> "null", items |-> <<>>, keys |-> <<>>, vals |-> <<>>]
\* An object: its keys, and the values under them (themselves no objects
\* with pairs: an empty object is JObj(<<>>, <<>>)).
JObj(keys, vals) == [t |-> "dict", items |-> <<>>, keys |-> keys, vals |-> vals]
NoJson == [t |-> "none", items |-> <<>>, keys |-> <<>>, vals |-> <<>>]

\* isinstance(x, list), isinstance(x, dict)
IsList(v) == v.t = "list"
IsDict(v) == v.t = "dict"

\* What a for loop over the value yields: the entries of a list, the
\* characters of a string and the keys of an object (none of them an
\* object); a number and null are not iterable.
Iterable(v) == v.t \in {"list", "str", "dict"}
Iter(v) == IF v.t = "list" THEN v.items
           ELSE IF v.t = "str" THEN [j \in 1..Len(v.items) |-> Scalar]
           ELSE [j \in 1..Len(v.keys) |-> Scalar]

KeyIndex(v, key) == CHOOSE j \in 1..Len(v.keys) : v.keys[j] = key
HasKey(v, key) == \E j \in 1..Len(v.keys) : v.keys[j] = key
Get(v, key) == v.vals[KeyIndex(v, key)]

(***************************************************************************)
(* A response text, as a sequence of pieces: white space, prose, a single  *)
(* character, the fence markers (three backticks, with and without json after them), and the text of a JSON    *)
(* value.  The text of a JSON value one of whose strings contains a fence  *)
(* is three pieces: its head, the fence, its tail.                         *)
(***************************************************************************)
Tok(kind) == [tok |-> kind, val |-> NoJson]
WS == Tok("WS")
PROSE == Tok("PROSE")        \* two characters or more, no fence, no JSON
DOT == Tok("DOT")            \* one character that is no white space
FJ == Tok("FJ")              \* three backticks and json
F == Tok("F")                \* three backticks, no json after them
J(v) == [tok |-> "JSON", val |-> v]
JHead(v) == [tok |-> "JHEAD", val |-> v]
JTail(v) == [tok |-> "JTAIL", val |-> v]
Broken == Tok("BROKEN")      \* a JSON text cut short

RECURSIVE lstrip(_)
lstrip(c) == IF c # <<>> /\ Head(c) = WS THEN lstrip(Tail(c)) ELSE c

RECURSIVE rstrip(_)
rstrip(c) == IF c # <<>> /\ c[Len(c)] = WS THEN rstrip(SubSeq(c, 1, Len(c) - 1)) ELSE c

\* str.strip()
strip(c) == rstrip(lstrip(c))

IsFence(t, marker) == IF marker = "FENCE_JSON" THEN t.tok = "FJ"
                      ELSE t.tok \in {"F", "FJ"}

\* marker in content
Contains(c, marker) == \E j \in 1..Len(c) : IsFence(c[j], marker)

\* content.find(marker, start): the position of the first marker at or after
\* start, or -1.  Positions count pieces; start may be Len(c) + 1.
find(c, marker, start) ==
    IF \E j \in start..Len(c) : IsFence(c[j], marker)
    THEN CHOOSE j \in start..Len(c) :
            /\ IsFence(c[j], marker)
            /\ \A h \in start..(j - 1) : ~IsFence(c[h], marker)
    ELSE 0 - 1

\* c without its last character.
DropLastChar(c) ==
    IF c = <<>> THEN c
    ELSE LET last == c[Len(c)]
             init == SubSeq(c, 1, Len(c) - 1)
         IN IF last.tok \in {"DOT", "WS"} THEN init
            ELSE IF last.tok \in {"JSON", "JTAIL", "JHEAD"} THEN Append(init, Broken)
            ELSE c

\* content[start:end], start the position after the opening fence and end
\* the result of find: -1 cuts the last character.
Slice(c, start, end) ==
    IF end = 0 - 1 THEN DropLastChar(SubSeq(c, start, Len(c)))
    ELSE SubSeq(c, start, end - 1)

\* json.loads(content) does not raise
Loads(c) ==
    LET b == strip(c)
    IN \/ Len(b) = 1 /\ b[1].tok = "JSON"
       \/ /\ Len(b) = 3
          /\ b[1].tok = "JHEAD" /\ b[2].tok \in {"F", "FJ"} /\ b[3].tok = "JTAIL"
          /\ b[1].val = b[3].val

\* json.loads(content)
json_loads(c) == strip(c)[1].val

(***************************************************************************)
(* CandidateSearchService._parse_llm_response                              *)
(***************************************************************************)
Raise == [raised |-> TRUE, value |-> <<>>]
Return(value) == [raised |-> FALSE, value |-> value]

\* Lines 68-75: when the content holds a fence marker, what lies between the
\* first marker and the next one replaces the content.
ExtractFenced(content) ==
    IF Contains(content, "FENCE_JSON")
    THEN LET start == find(content, "FENCE_JSON", 1) + 1
             end == find(content, "FENCE", start)
         IN strip(Slice(content, start, end))
    ELSE IF Contains(content, "FENCE")
    THEN LET start == find(content, "FENCE", 1) + 1
             end == find(content, "FENCE", start)
         IN strip(Slice(content, start, end))
    ELSE content

RECURSIVE Insert(_, _)
\* e put into a list sorted by falling relevance_score.
Insert(e, sorted) ==
    IF sorted = <<>> THEN <<e>>
    ELSE IF e.relevance_score > Head(sorted).relevance_score
         THEN <<e>> \o sorted
         ELSE <<Head(sorted)>> \o Insert(e, Tail(sorted))

RECURSIVE SortedByRelevance(_)
SortedByRelevance(es) ==
    IF es = <<>> THEN <<>>
    ELSE Insert(Head(es), SortedByRelevance(Tail(es)))

\* As ListEvaluations, with the evaluations sorted, best first.
ListEvaluations_sorted(items) ==
    IF \E j \in 1..Len(items) : items[j].kind = "dict" /\ ~Validates(items[j])
    THEN [raised |-> TRUE, value |-> <<>>]
    ELSE [raised |-> FALSE,
          value |-> SortedByRelevance(
                      [j \in 1..Len(items) |->
                         IF items[j].kind = "dict" THEN CandidateEvaluation(items[j])
                         ELSE Unvalidated(items[j])])]

\* Lines 82-85: [CandidateEvaluation(**item) if isinstance(item, dict) else
\* item for item in data]
ListEvaluations(items) ==
    IF \E j \in 1..Len(items) : items[j].kind = "dict" /\ ~Validates(items[j])
    THEN Raise
    ELSE Return([j \in 1..Len(items) |->
                    IF items[j].kind = "dict" THEN CandidateEvaluation(items[j])
                    ELSE Unvalidated(items[j])])

\* Lines 89-91 and 96-98: [CandidateEvaluation(**item) for item in value];
\* ** of something that is no mapping raises TypeError.
Evaluations(items) ==
    IF \E j \in 1..Len(items) : ~Validates(items[j])
    THEN Raise
    ELSE Return([j \in 1..Len(items) |-> CandidateEvaluation(items[j])])

\* Lines 87-101: the value under "candidates" when the key is there, else
\* the first value that is a list.
DictEvaluations(data) ==
    IF HasKey(data, "candidates")
    THEN IF Iterable(Get(data, "candidates"))
         THEN Evaluations(Iter(Get(data, "candidates")))
         ELSE Raise
    ELSE IF \E j \in 1..Len(data.vals) : IsList(data.vals[j])
         THEN LET first == CHOOSE j \in 1..Len(data.vals) :
                              /\ IsList(data.vals[j])
                              /\ \A h \in 1..(j - 1) : ~IsList(data.vals[h])
              IN Evaluations(data.vals[first].items)
         ELSE Raise

\* Every exception of the body becomes ValueError.
parse_llm_response(response_content) ==
    LET content == ExtractFenced(strip(response_content))
    IN IF ~Loads(content) THEN Raise
       ELSE LET data == json_loads(content)
            IN IF IsList(data) THEN ListEvaluations(data.items)
               ELSE IF IsDict(data) THEN DictEvaluations(data)
               ELSE Raise

(***************************************************************************)
(* What the chat model can answer to the evaluation prompt.                *)
(***************************************************************************)
Lists == SeqsUpTo(ItemPool, MaxItems) \cup {<<x>> : x \in LoneItems}

ModelValues ==
    {JList(l) : l \in Lists}
    \cup {JObj(<<"candidates">>, <<JList(l)>>) : l \in Lists}
    \cup {JObj(<<"comment", "results">>, <<JStr(<<"c">>), JList(l)>>) : l \in Lists}
    \cup { JObj(<<"results", "rejected">>, <<JList(<<Ann>>), JList(<<Bob>>)>>),
           JObj(<<"rejected", "results">>, <<JList(<<Scalar>>), JList(<<Ann>>)>>),
           JObj(<<"candidates">>, <<JObj(<<>>, <<>>)>>),
           JObj(<<"candidates">>, <<JObj(<<"Ann">>, <<JNumber>>)>>),
           JObj(<<"candidates">>, <<JStr(<<>>)>>),
           JObj(<<"candidates">>, <<JStr(<<"c">>)>>),
           JObj(<<"candidates">>, <<JNull>>),
           JObj(<<"comment">>, <<JStr(<<"c">>)>>),
           JObj(<<>>, <<>>),
           JNumber, JNull, JStr(<<"c">>) }

\* How the model writes a value down.
Wrappers == {"bare", "fenced_json", "fenced", "prose_fenced_json",
             "fenced_other_tag", "unclosed", "unclosed_dot", "prose_json",
             "fence_in_string"}

\* The value's text holds a string: an object's key, a string, an entry.
HasString(v) == v.t = "str" \/ v.keys # <<>> \/ v.items # <<>>

Render(w, v) ==
    CASE w = "bare" -> <<WS, J(v), WS>>
      [] w = "fenced_json" -> <<FJ, WS, J(v), WS, F>>
      [] w = "fenced" -> <<F, WS, J(v), WS, F>>
      [] w = "prose_fenced_json" -> <<PROSE, WS, FJ, WS, J(v), WS, F, WS, PROSE>>
      [] w = "fenced_other_tag" -> <<F, PROSE, WS, J(v), WS, F>>
      [] w = "unclosed" -> <<FJ, WS, J(v)>>
      [] w = "unclosed_dot" -> <<FJ, WS, J(v), DOT>>
      [] w = "prose_json" -> <<PROSE, WS, J(v)>>
      [] w = "fence_in_string" -> <<JHead(v), F, JTail(v)>>

Answers ==
    {[wrap |-> "prose_only", value |-> NoJson]}
    \cup {[wrap |-> w, value |-> v] : w \in Wrappers \ {"fence_in_string"},
                                      v \in ModelValues}
    \cup {[wrap |-> "fence_in_string", value |-> v] :
              v \in {u \in ModelValues : HasString(u)}}

Written(a) == IF a.wrap = "prose_only" THEN <<PROSE, WS, PROSE>>
              ELSE Render(a.wrap, a.value)

(***************************************************************************)
(* VectorStoreService.search_with_filter                                   *)
(***************************************************************************)
\* The relevance score of a point for the request's query, in hundredths.
Similarity(p) ==
    CASE p.page_content = "python backend" -> 90
      [] p.page_content = "java team lead" -> 70
      [] OTHER -> 50

\* As Matches, with Range(lte=...) for the experience: the request's years
\* are an upper bound.
Matches_upper_bound(p, req) ==
    /\ ~IsNone(req.experience_years_min)
          => /\ ~IsNone(p.metadata.experience_years)
             /\ Val(p.metadata.experience_years) <= Val(req.experience_years_min)
    /\ ~IsNone(req.grade)
          => /\ ~IsNone(p.metadata.grade)
             /\ Val(p.metadata.grade) = Val(req.grade)

\* As Matches, with the grade read as a minimum: a Lead passes a request for
\* Senior.
Matches_grade_at_least(p, req) ==
    LET rank(g) == CASE g = "Intern" -> 1 [] g = "Junior" -> 2
                     [] g = "Middle" -> 3 [] g = "Senior" -> 4
                     [] g = "Lead" -> 5 [] OTHER -> 6
    IN /\ ~IsNone(req.experience_years_min)
             => /\ ~IsNone(p.metadata.experience_years)
                /\ Val(p.metadata.experience_years) >= Val(req.experience_years_min)
       /\ ~IsNone(req.grade)
             => /\ ~IsNone(p.metadata.grade)
                /\ rank(Val(p.metadata.grade)) >= rank(Val(req.grade))

\* Filter(must=[Range(gte=experience_years_min), match grade])
Matches(p, req) ==
    /\ ~IsNone(req.experience_years_min)
          => /\ ~IsNone(p.metadata.experience_years)
             /\ Val(p.metadata.experience_years) >= Val(req.experience_years_min)
    /\ ~IsNone(req.grade)
          => /\ ~IsNone(p.metadata.grade)
             /\ Val(p.metadata.grade) = Val(req.grade)

Match(p) == [doc |-> [page_content |-> p.page_content, metadata |-> p.metadata],
             id |-> p.id, score |-> Similarity(p)]

\* similarity_search_with_relevance_scores(query, k, filter): the k best of
\* the points that pass the filter, best first, ties in any order.
similarity_search(idx, req) ==
    LET passing == {p \in idx : Matches(p, req)}
        n == Min(req.k, Cardinality(passing))
    IN { [j \in 1..n |-> Match(s[j])] :
           s \in { t \in SeqsUpTo(passing, n) :
                     /\ Len(t) = n
                     /\ \A a, b \in 1..n : a < b =>
                           /\ t[a] # t[b]
                           /\ Similarity(t[a]) >= Similarity(t[b])
                     /\ \A p \in passing \ Range(t) :
                           \A a \in 1..n : Similarity(t[a]) >= Similarity(p) } }

(***************************************************************************)
(* CandidateSearchService.search_candidates                                *)
(***************************************************************************)
Fullname(id) == CASE id = 1 -> "Ann" [] id = 2 -> "Bob" [] OTHER -> "Cid"

\* _build_candidate_context(doc, candidate_row)
build_candidate_context(doc, id) ==
    [name |-> Fullname(id), page_content |-> doc.page_content]

\* As Resolved, without the look-up of the row in the table.
Resolved_without_row(doc, rows) == ~IsNone(doc.metadata.candidate_id)

\* Lines 158-171: the match has a candidate_id and the table has its row.
Resolved(doc, rows) ==
    /\ ~IsNone(doc.metadata.candidate_id)
    /\ Val(doc.metadata.candidate_id) \in rows

RECURSIVE Contexts(_, _)
\* Lines 157-176: one context per resolved match, in the order of the matches.
Contexts(docs, rows) ==
    IF docs = <<>> THEN <<>>
    ELSE LET rest == Contexts(Tail(docs), rows)
             d == Head(docs).doc
         IN IF Resolved(d, rows)
            THEN <<build_candidate_context(d, Val(d.metadata.candidate_id))>> \o rest
            ELSE rest

\* Line 144: if not docs_with_scores: return []
AfterSearch(docs) == IF docs = <<>> THEN "return_empty" ELSE "load"

\* As AfterResolve, without the check for an empty list of contexts.
AfterResolve_unchecked(contexts) == "invoke"

\* Line 185: if not candidates_contexts: return []
AfterResolve(contexts) == IF contexts = <<>> THEN "return_empty" ELSE "invoke"

Requests ==
    [k : 1..MaxK,
     experience_years_min : {None, Some(3), Some(5)},
     grade : {None, Some("Senior")}]

Returned(value) == [kind |-> "returned", at |-> "", value |-> value]
Raised(at) == [kind |-> "raised", at |-> at, value |-> <<>>]

\* search_with_filter raised: the store cannot be reached (check_connection
\* in get_vector_store raises ConnectionError), or the search itself failed.
SearchFailsOf(requests) ==
    /\ spc = "idle"
    /\ \E req \in requests : request' = req
    /\ \E answer \in HealthAnswers : health' = answer
    /\ spc' = "done"
    /\ outcome' = Raised("search")
    /\ UNCHANGED <<loaderVars, storeVars, ingestVars, tasks, info, docs_with_scores,
                   candidates_contexts, llm_calls, response>>

SearchFails == SearchFailsOf(Requests)

\* docs_with_scores = search_with_filter(...), and the return of [] when
\* nothing was found.
\* get_vector_store calls check_connection and does not read its result:
\* the search is issued unless the check raised.
SearchOf(requests) ==
    /\ spc = "idle"
    /\ \E req \in requests :
          /\ request' = req
          /\ \E docs \in similarity_search(index, req) :
                docs_with_scores' = docs
    /\ \E answer \in HealthAnswers :
          /\ check_connection(answer) # "raise"
          /\ health' = answer
    /\ IF AfterSearch(docs_with_scores') = "return_empty"
       THEN spc' = "done" /\ outcome' = Returned(<<>>)
       ELSE spc' = "searched" /\ UNCHANGED outcome
    /\ UNCHANGED <<loaderVars, storeVars, ingestVars, tasks, info, candidates_contexts,
                   llm_calls, response>>

Search == SearchOf(Requests)

\* get_candidates_from_db() raised.
LoadFails ==
    /\ spc = "searched"
    /\ spc' = "done"
    /\ outcome' = Raised("db")
    /\ UNCHANGED <<loaderVars, storeVars, ingestVars, serviceVars, request, docs_with_scores,
                   candidates_contexts, llm_calls, response>>

\* df = get_candidates_from_db(), the loop over the matches, and the return
\* of [] when no match was resolved.
Resolve ==
    /\ spc = "searched"
    /\ candidates_contexts' = Contexts(docs_with_scores, table)
    /\ IF AfterResolve(candidates_contexts') = "return_empty"
       THEN spc' = "done" /\ outcome' = Returned(<<>>)
       ELSE spc' = "resolved" /\ UNCHANGED outcome
    /\ UNCHANGED <<loaderVars, storeVars, ingestVars, serviceVars, request, docs_with_scores,
                   llm_calls, response>>

\* self.llm.invoke(evaluation_prompt) raised.
EvaluateFails ==
    /\ spc = "resolved"
    /\ llm_calls' = llm_calls + 1
    /\ spc' = "done"
    /\ outcome' = Raised("llm")
    /\ UNCHANGED <<loaderVars, storeVars, ingestVars, serviceVars, request, docs_with_scores,
                   candidates_contexts, response>>

\* result = self.llm.invoke(evaluation_prompt);
\* return self._parse_llm_response(result.content), or its ValueError.
EvaluateOf(answers) ==
    /\ spc = "resolved"
    /\ llm_calls' = llm_calls + 1
    /\ \E a \in answers : response' = a
    /\ LET parsed == parse_llm_response(Written(response'))
       IN outcome' = IF parsed.raised THEN Raised("parse")
                     ELSE Returned(parsed.value)
    /\ spc' = "done"
    /\ UNCHANGED <<loaderVars, storeVars, ingestVars, serviceVars, request,
                   docs_with_scores, candidates_contexts>>

Evaluate == EvaluateOf(Answers)

(***************************************************************************)
(* Initial states.                                                         *)
(***************************************************************************)
IngestIdle ==
    /\ pc = "idle"
    /\ jobs = 0
    /\ job_result = "none"
    /\ df = <<>>
    /\ pos = 1
    /\ attempt = 1
    /\ raw_text = NoText
    /\ calls = <<>>
    /\ calls_of = 0
    /\ item_status = <<>>
    /\ parsed_results = <<>>
    /\ documents = <<>>

SearchIdle ==
    /\ spc = "idle"
    /\ request = [k |-> 1, experience_years_min |-> None, grade |-> None]
    /\ docs_with_scores = <<>>
    /\ candidates_contexts = <<>>
    /\ llm_calls = 0
    /\ response = [wrap |-> "none", value |-> NoJson]
    /\ outcome = [kind |-> "none", at |-> "", value |-> <<>>]

\* No refresh task was started, no health check and no status request made.
ServiceIdle ==
    /\ tasks = <<>>
    /\ health = "none"
    /\ info = [answer |-> "none", points |-> 0, raised |-> FALSE,
               exists |-> FALSE, points_count |-> 0]

\* update_postgres_database was not called and no batch is being parsed.
LoaderIdle ==
    /\ candidates = {}
    /\ csv_df = <<>>
    /\ update_result = [kind |-> "none", at |-> "", count |-> 0]
    /\ resumes = <<>>
    /\ html_resume = <<>>

Init ==
    /\ table \in {1..n : n \in 0..MaxResumes}
    /\ index = {}
    /\ next_uuid = 1
    /\ IngestIdle
    /\ SearchIdle
    /\ ServiceIdle
    /\ LoaderIdle

Next ==
    \/ StartRefreshDbDown
    \/ StartRefresh
    \/ ExtractCall
    \/ RepairCall
    \/ Convert
    \/ Upsert

Spec == Init /\ [][Next]_vars

\* The points a collection holds when a search arrives: two written by the
\* refresh job, one of a candidate whose row is gone, one written by
\* another tool, without candidate_id.
StoredPoints ==
    { Point(11, Document(ModelDump(RawOutput(TRUE, 1, Some(5), Some("Senior"), Some("python backend"))))),
      Point(12, Document(ModelDump(RawOutput(TRUE, 2, Some(2), Some("Lead"), Some("java team lead"))))),
      Point(13, Document(ModelDump(RawOutput(TRUE, 3, Some(7), Some("Senior"), Some("python backend"))))),
      [id |-> 14, page_content |-> "imported note",
       metadata |-> [candidate_id |-> None, experience_years |-> Some(4),
                     grade |-> Some("Senior"), languages |-> <<>>]] }

InitSearch ==
    /\ table \in {1..n : n \in 0..2}
    /\ index \in SUBSET StoredPoints
    /\ next_uuid = 1
    /\ IngestIdle
    /\ SearchIdle
    /\ ServiceIdle
    /\ LoaderIdle

NextSearch ==
    \/ SearchFails
    \/ Search
    \/ LoadFails
    \/ Resolve
    \/ EvaluateFails
    \/ Evaluate

SpecSearch == InitSearch /\ [][NextSearch]_vars

(***************************************************************************)
(* The web service: POST /update-vector-db adds update_vector_db_task to   *)
(* the BackgroundTasks of its response.  The task is a plain def, which    *)
(* Starlette runs in a worker thread after the response was sent; nothing  *)
(* keeps a second POST (or scripts/update_vector_db.py in a process of its *)
(* own) from starting the same task while an earlier one runs.  POST       *)
(* /search runs search_candidates in the executor of the event loop.       *)
(* A chat-model call of a task is two steps here: llm.invoke is entered,   *)
(* and it returns or raises.                                               *)
(***************************************************************************)
Task(tpc, rows, p, a, results) ==
    [pc |-> tpc, df |-> rows, pos |-> p, attempt |-> a,
     parsed_results |-> results]

\* What the chat model answers to a task: a transport error, metadata that
\* validates, or a text that is no JSON.
TaskResults ==
    { [raised |-> TRUE, text |-> NoText],
      [raised |-> FALSE,
       text |-> RawOutput(TRUE, 1, Some(5), Some("Senior"), Some("python backend"))],
      [raised |-> FALSE,
       text |-> RawOutput(FALSE, 1, Some(5), Some("Senior"), Some("python backend"))] }

\* The task is inside llm.invoke for the resume at its position.
InCall(task) == task.pc \in {"in_extract", "in_repair"}
Running(task) == task.pc \notin {"done", "failed"}

\* As EventLoopFree, with the task run on the request path: the event loop
\* serves nothing until the task has ended.
EventLoopFree_inline(ts) == \A t \in 1..Len(ts) : ~Running(ts[t])

\* background_tasks.add_task(update_vector_db_task): the task runs in a
\* worker thread, the event loop stays free whatever the tasks do.
EventLoopFree(ts) == TRUE

\* POST /update-vector-db (or the update script): a task is added, and the
\* response 202 is sent.
PostUpdateVectorDb ==
    /\ Len(tasks) < MaxTasks
    /\ EventLoopFree(tasks)
    /\ tasks' = Append(tasks, Task("load", <<>>, 1, 1, <<>>))
    /\ UNCHANGED <<loaderVars, storeVars, ingestVars, searchVars, health, info>>

\* df = get_candidates_from_db(), and the start of process_resumes_batch.
TaskLoad(t) ==
    /\ tasks[t].pc = "load"
    /\ \/ tasks' = [tasks EXCEPT ![t] = Task("failed", <<>>, 1, 1, <<>>)]
       \/ /\ table # {}
          /\ tasks' = [tasks EXCEPT ![t] =
                         Task("extract", Ascending(table), 1, 1, <<>>)]
       \/ /\ table = {}
          /\ tasks' = [tasks EXCEPT ![t] = Task("convert", <<>>, 1, 1, <<>>)]
    /\ UNCHANGED <<loaderVars, storeVars, ingestVars, searchVars, health, info>>

\* self.llm.invoke(messages) is entered: line 222, or line 216 for the repair.
TaskInvoke(t) ==
    /\ tasks[t].pc \in {"extract", "repair"}
    /\ tasks' = [tasks EXCEPT ![t].pc =
                    IF tasks[t].pc = "extract" THEN "in_extract" ELSE "in_repair"]
    /\ UNCHANGED <<loaderVars, storeVars, ingestVars, searchVars, health, info>>

\* The task after its item ended with status.
TaskAfterItem(task, status, metadata) ==
    LET next == process_resumes_batch(status, task.pos, Len(task.df))
    IN Task(next, task.df,
            IF next = "extract" THEN task.pos + 1 ELSE task.pos, 1,
            Collected(task.parsed_results, status, metadata))

\* llm.invoke returned or raised, and what follows up to the next call.
TaskAnswer(t) ==
    /\ InCall(tasks[t])
    /\ \E res \in TaskResults :
          LET task == tasks[t]
              stage == IF task.pc = "in_extract" THEN "extract" ELSE "repair"
              next == call_llm_and_parse(stage, res)
          IN tasks' = [tasks EXCEPT ![t] =
                CASE next = "return" ->
                        TaskAfterItem(task, "Success", ModelDump(res.text))
                  [] next = "repair" ->
                        Task("repair", task.df, task.pos, task.attempt,
                             task.parsed_results)
                  [] OTHER ->
                        IF retry(task.attempt) = "again"
                        THEN Task("extract", task.df, task.pos,
                                  task.attempt + 1, task.parsed_results)
                        ELSE TaskAfterItem(task, "Failed", NoMetadata)]
    /\ UNCHANGED <<loaderVars, storeVars, ingestVars, searchVars, health, info>>

\* convert_to_documents(parsed_results), and its ValueError.
TaskConvert(t) ==
    /\ tasks[t].pc = "convert"
    /\ tasks' = [tasks EXCEPT ![t].pc =
                    IF convert_to_documents(tasks[t].parsed_results) = <<>>
                    THEN "failed" ELSE "upsert"]
    /\ UNCHANGED <<loaderVars, storeVars, ingestVars, searchVars, health, info>>

\* create_or_update_collection(documents)
TaskUpsert(t) ==
    /\ tasks[t].pc = "upsert"
    /\ LET docs == convert_to_documents(tasks[t].parsed_results)
       IN \E answer \in HealthAnswers :
             /\ health' = answer
             /\ IF check_connection(answer) = "raise"
                THEN /\ tasks' = [tasks EXCEPT ![t].pc = "failed"]
                     /\ UNCHANGED <<index, next_uuid>>
                ELSE \E n \in 0..Len(docs) :
                        /\ index' = index \cup from_documents(docs, n, next_uuid)
                        /\ next_uuid' = next_uuid + n
                        /\ tasks' = [tasks EXCEPT ![t].pc =
                                        IF n = Len(docs) THEN "done" ELSE "failed"]
    /\ UNCHANGED <<loaderVars, table, ingestVars, searchVars, info>>

\* One step of one of the tasks.
TaskStep ==
    \E t \in 1..Len(tasks) :
       \/ TaskLoad(t)
       \/ TaskInvoke(t)
       \/ TaskAnswer(t)
       \/ TaskConvert(t)
       \/ TaskUpsert(t)

\* The search requests and the evaluation answers of this specification.
ServiceRequests ==
    {req \in Requests : req.k = MaxK /\ IsNone(req.grade)}

ServiceAnswers ==
    { [wrap |-> "prose_only", value |-> NoJson],
      [wrap |-> "bare", value |-> JList(<<Ann>>)] }

\* POST /search: the handler starts when the event loop is free, and hands
\* search_candidates to the executor.
ServiceSearch == EventLoopFree(tasks) /\ SearchOf(ServiceRequests)
ServiceSearchFails == EventLoopFree(tasks) /\ SearchFailsOf(ServiceRequests)
ServiceEvaluate == EvaluateOf(ServiceAnswers)

InitService ==
    /\ table = {1}
    /\ index = {}
    /\ next_uuid = 1
    /\ IngestIdle
    /\ SearchIdle
    /\ ServiceIdle
    /\ LoaderIdle

SearchStep ==
    \/ ServiceSearch
    \/ ServiceSearchFails
    \/ LoadFails
    \/ Resolve
    \/ EvaluateFails
    \/ ServiceEvaluate

NextService ==
    \/ PostUpdateVectorDb
    \/ TaskStep
    \/ SearchStep

SpecService == InitService /\ [][NextService]_vars

(***************************************************************************)
(* GET /collection/status: VectorStoreService.get_collection_info.         *)
(***************************************************************************)
\* What client.get_collection can come to: the collection's info, or an
\* exception whose message does or does not hold "not found" / "does not
\* exist".  Qdrant answers 404 (Not Found) for a collection that is missing.
StoreAnswer(kind, points, not_found_text) ==
    [kind |-> kind, points |-> points, not_found_text |-> not_found_text]

StoreAnswers(idx) ==
    { StoreAnswer("unreachable", 0, FALSE),     \* connection refused, time-out
      StoreAnswer("other_404", 0, TRUE) }       \* Not Found from something else
    \cup (IF idx = {}
          THEN {StoreAnswer("missing", 0, TRUE), StoreAnswer("found", 0, FALSE)}
          ELSE {StoreAnswer("found", Cardinality(idx), FALSE)})

CollectionInfo(answer, raised, exists, points_count) ==
    [answer |-> answer.kind, points |-> answer.points, raised |-> raised,
     exists |-> exists, points_count |-> points_count]

\* As get_collection_info, without the test of the message: every exception
\* of get_collection ends in RuntimeError.
get_collection_info_reraise(answer) ==
    IF answer.kind = "found"
    THEN CollectionInfo(answer, FALSE, TRUE, answer.points)
    ELSE CollectionInfo(answer, TRUE, FALSE, 0)

get_collection_info(answer) ==
    IF answer.kind = "found"
    THEN CollectionInfo(answer, FALSE, TRUE, answer.points)
    ELSE IF answer.not_found_text
         THEN CollectionInfo(answer, FALSE, FALSE, 0)     \* lines 70-76
         ELSE CollectionInfo(answer, TRUE, FALSE, 0)      \* raise, RuntimeError

CollectionStatus ==
    /\ \E answer \in StoreAnswers(index) : info' = get_collection_info(answer)
    /\ UNCHANGED <<loaderVars, storeVars, ingestVars, searchVars, tasks, health>>

NextStatus == CollectionStatus

SpecStatus == InitSearch /\ [][NextStatus]_vars

(***************************************************************************)
(* The extraction of one resume on any answer of the chat model: every     *)
(* combination of the fields the validators of CandidateMetadata read, and *)
(* texts that repeat the name, the phone or the e-mail of the record.      *)
(***************************************************************************)
\* The personal fields of the row id of the table candidates.
MobilePhone(id) == CASE id = 1 -> "+375-1" [] id = 2 -> "+375-2" [] OTHER -> "+375-3"
Email(id) == CASE id = 1 -> "ann@x.by" [] id = 2 -> "bob@x.by" [] OTHER -> "cid@x.by"

\* The strings of a record of the table that a text contains.
Substrings(text) ==
    CASE text = "Ann python backend" -> {"Ann"}
      [] text = "python backend, call +375-1" -> {"+375-1"}
      [] text = "python backend ann@x.by" -> {"ann@x.by"}
      [] OTHER -> {}

AllOutputs ==
    { RawOutputWith(TRUE, 1, y, g, l, t) :
         y \in {None, Some(0 - 1), Some(5)},
         g \in {None, Some("Senior"), Some(""), Some("Expert")},
         l \in {<<>>, <<Some("B2")>>, <<None>>, <<Some("")>>, <<Some("fluent")>>},
         t \in {None, NonString, Some(""), Some("python backend"),
                Some("Ann python backend"), Some("python backend, call +375-1"),
                Some("python backend ann@x.by")} }
    \cup {RawOutput(FALSE, 1, Some(5), Some("Senior"), Some("python backend"))}

\* The job read the one row of the table and stands before its extraction.
InitParse ==
    /\ table = {1}
    /\ index = {}
    /\ next_uuid = 1
    /\ pc = "extract"
    /\ jobs = 1
    /\ job_result = "running"
    /\ df = <<1>>
    /\ pos = 1
    /\ attempt = 1
    /\ raw_text = NoText
    /\ calls = <<>>
    /\ calls_of = 0
    /\ item_status = <<>>
    /\ parsed_results = <<>>
    /\ documents = <<>>
    /\ SearchIdle
    /\ ServiceIdle
    /\ LoaderIdle

ExtractAnswered ==
    \E t \in AllOutputs : LlmCall("extract", [raised |-> FALSE, text |-> t])

RepairAnswered ==
    \E t \in AllOutputs : LlmCall("repair", [raised |-> FALSE, text |-> t])

NextParse ==
    \/ ExtractAnswered
    \/ RepairAnswered
    \/ Convert
    \/ Upsert

SpecParse == InitParse /\ [][NextParse]_vars

(***************************************************************************)
(* convert_to_documents and create_or_update_collection on any list of     *)
(* extraction entries.                                                     *)
(***************************************************************************)
\* An entry that is no dict of a CandidateMetadata: its type, and what it
\* holds under embedding_text.
Entry(type, text) ==
    [type |-> type, candidate_id |-> 3, experience_years |-> Some(1),
     grade |-> None, languages |-> <<>>, embedding_text |-> text]

Entries ==
    { ModelDump(RawOutput(TRUE, 1, Some(5), Some("Senior"), Some("python backend"))),
      ModelDump(RawOutput(TRUE, 2, Some(2), Some("Lead"), Some("java team lead"))),
      Entry("dict", Some("")),            \* the empty string is a string
      Entry("dict", None),                \* no embedding_text, or null
      Entry("dict", NonString),           \* embedding_text is a number
      Entry("empty", None),               \* {} or None
      Entry("other", Some("a string")) }  \* a string, a list, ...

\* The job stands before convert_to_documents(parsed_results), and
\* parsed_results is any list of entries.
InitConvert ==
    /\ table = {}
    /\ index = {}
    /\ next_uuid = 1
    /\ pc = "convert"
    /\ jobs = 1
    /\ job_result = "running"
    /\ df = <<>>
    /\ pos = 1
    /\ attempt = 1
    /\ raw_text = NoText
    /\ calls = <<>>
    /\ calls_of = 0
    /\ item_status = <<>>
    /\ parsed_results \in SeqsUpTo(Entries, MaxEntries)
    /\ documents = <<>>
    /\ SearchIdle
    /\ ServiceIdle
    /\ LoaderIdle

NextConvert ==
    \/ Convert
    \/ Upsert

SpecConvert == InitConvert /\ [][NextConvert]_vars

(***************************************************************************)
(* The refresh of the table candidates from the CSV export:                *)
(* services/data_loader.py (update_postgres_database, preprocess_data) and *)
(* db/db_manager.py (insert_candidates).  A record carries its id, one of  *)
(* the flat columns (fullname stands for the sixteen columns that the      *)
(* upsert replaces together) and the cell data with the resume.            *)
(***************************************************************************)
MaxRecords == 3

\* The cell data of a record: nothing, a str or the bytes of the export,
\* with the markers its text holds.
Data(type, s, markers) == [type |-> type, s |-> s, markers |-> markers]

ResumeMarkers == {"<html>", "<p class=EStaffResumeTitle>"}

\* extract_html_resume(x): the decoded, stripped text when it holds both
\* markers, otherwise None.
extract_html_resume(x) ==
    IF x.type = "none" THEN None
    ELSE IF ResumeMarkers \subseteq x.markers THEN Some(x.s)
    ELSE None

\* The columns insert_candidates writes (lines 26-44).
columns ==
    {"id", "fullname", "gender_id", "age", "location_name", "mobile_phone",
     "email", "desired_position_name", "profession_name_1",
     "profession_name_2", "exp_years", "cv_summary_desc",
     "last_job_position_name", "last_job_finished", "last_comment", "html",
     "creation_date"}

\* The header of the CSV export: the flat columns and the cell data.
CsvColumns == (columns \ {"html"}) \cup {"data"}

Record(id, fullname, data) == [id |-> id, fullname |-> fullname, data |-> data]

\* The records an export can hold: candidate 1 four times (two versions with
\* a resume, one whose text lacks the title paragraph, one without data) and
\* candidate 2 with and without a resume.
Records ==
    { Record(1, "Ann", Data("str", "<html>cv A", ResumeMarkers)),
      Record(1, "Anna", Data("bytes", "<html>cv B", ResumeMarkers)),
      Record(1, "Anya", Data("str", "<html>note", {"<html>"})),
      Record(1, "A.", Data("none", "", {})),
      Record(2, "Bob", Data("str", "<html>cv C", ResumeMarkers)),
      Record(2, "Bobby", Data("none", "", {})) }

\* A row of the table candidates.
Row(id, fullname, html) == [id |-> id, fullname |-> fullname, html |-> html]

Ids(rows) == {r.id : r \in rows}

\* What load_data_from_csv returns: the number of files found, the header
\* and the records of all files in order.
CsvExports ==
    {[files |-> 0, columns |-> CsvColumns, rows |-> <<>>]}
    \cup {[files |-> 1, columns |-> c, rows |-> rows] :
             c \in {CsvColumns, CsvColumns \ {"creation_date"}},
             rows \in SeqsUpTo(Records, MaxRecords)}

\* df["html"] = df["data"].apply(extract_html_resume);
\* df = df[df["html"].notna()]
WithHtml(rows) ==
    SelectSeq([j \in 1..Len(rows) |->
                  [id |-> rows[j].id, fullname |-> rows[j].fullname,
                   html |-> extract_html_resume(rows[j].data)]],
              LAMBDA r : ~IsNone(r.html))

\* The positions of rows that stay with keep="first".
drop_duplicates_keep_first(rows) ==
    {j \in 1..Len(rows) : \A h \in 1..(j - 1) : rows[h].id # rows[j].id}

\* df.drop_duplicates(subset=["id"], keep="last"): the positions that stay.
drop_duplicates(rows) ==
    {j \in 1..Len(rows) : \A h \in (j + 1)..Len(rows) : rows[h].id # rows[j].id}

RECURSIVE Pick(_, _, _)
\* The rows at the positions keep, in order, from position j on.
Pick(rows, keep, j) ==
    IF j > Len(rows) THEN <<>>
    ELSE IF j \in keep THEN <<rows[j]>> \o Pick(rows, keep, j + 1)
    ELSE Pick(rows, keep, j + 1)

\* preprocess_data(df)
preprocess_data(csv) ==
    LET with_html == WithHtml(csv.rows)
    IN [columns |-> csv.columns \cup {"html"},
        rows |-> Pick(with_html, drop_duplicates(with_html), 1)]

\* page_size of extras.execute_values
page_size == 1000

RECURSIVE Pages(_)
\* The pages execute_values sends, one INSERT statement each.
Pages(data_tuples) ==
    IF data_tuples = <<>> THEN <<>>
    ELSE LET n == Min(page_size, Len(data_tuples))
         IN <<SubSeq(data_tuples, 1, n)>>
            \o Pages(SubSeq(data_tuples, n + 1, Len(data_tuples)))

\* INSERT ... ON CONFLICT (id) DO UPDATE cannot touch one row twice: such a
\* statement fails as a whole.
TouchesRowTwice(page) ==
    \E a, b \in 1..Len(page) : a < b /\ page[a].id = page[b].id

\* One INSERT ... VALUES page ON CONFLICT (id) DO UPDATE SET <every other
\* column> = EXCLUDED.<column>: the rows of other ids stay, the rows of the
\* page replace those of their ids.
Upsert_page(rows, page) ==
    {r \in rows : r.id \notin Ids(Range(page))}
    \cup {Row(t.id, t.fullname, Val(t.html)) : t \in Range(page)}

RECURSIVE Execute(_, _, _)
\* The transaction's view of the table after the first n pages.
Execute(rows, pages, n) ==
    IF n = 0 THEN rows
    ELSE Upsert_page(Execute(rows, pages, n - 1), pages[n])

\* What can go wrong in insert_candidates after the check of the columns.
Faults == {"none", "connect", "execute", "commit"}

\* As rollback, on a connection that keeps what its statements wrote.
rollback_keeps_work(before, working) == working

\* conn.rollback(): the table is as it was when the transaction began.
rollback(before, working) == before

DbReturned(rows, count) ==
    [kind |-> "returned", at |-> "", count |-> count, rows |-> rows]
DbRaised(rows, at) ==
    [kind |-> "raised", at |-> at, count |-> 0, rows |-> rows]

\* insert_candidates(df, db_config) on the table rows; fault is what the
\* database does to this call, page the statement that fails.
insert_candidates(frame, rows, fault, page) ==
    IF ~(columns \subseteq frame.columns) THEN DbRaised(rows, "columns")
    ELSE IF fault = "connect" THEN DbRaised(rows, "connect")
    ELSE LET pages == Pages(frame.rows)
             failing ==
                 IF fault = "execute" /\ page \in 1..Len(pages) THEN page
                 ELSE IF \E n \in 1..Len(pages) : TouchesRowTwice(pages[n])
                 THEN CHOOSE n \in 1..Len(pages) :
                         /\ TouchesRowTwice(pages[n])
                         /\ \A h \in 1..(n - 1) : ~TouchesRowTwice(pages[h])
                 ELSE 0
         IN IF failing > 0
            THEN DbRaised(rollback(rows, Execute(rows, pages, failing - 1)),
                          "execute")
            ELSE IF fault = "commit"
            THEN DbRaised(rollback(rows, Execute(rows, pages, Len(pages))),
                          "commit")
            ELSE DbReturned(Execute(rows, pages, Len(pages)), Len(frame.rows))

\* update_postgres_database(): load, preprocess, insert, return len(df);
\* every exception is logged and raised again.
update_postgres_database(csv, rows, fault, page) ==
    IF csv.files = 0 THEN DbRaised(rows, "load")
    ELSE LET frame == preprocess_data(csv)
             done == insert_candidates(frame, rows, fault, page)
         IN IF done.kind = "raised" THEN done
            ELSE DbReturned(done.rows, Len(frame.rows))

\* One run of update_postgres_database (POST /update-db or
\* scripts/update_database.py).
UpdatePostgresDatabase ==
    /\ update_result.kind = "none"
    /\ \E fault \in Faults, page \in 1..MaxRecords :
          LET done == update_postgres_database(csv_df, candidates, fault, page)
          IN /\ candidates' = done.rows
             /\ table' = Ids(done.rows)
             /\ update_result' = [kind |-> done.kind, at |-> done.at,
                                  count |-> done.count]
    /\ UNCHANGED <<index, next_uuid, ingestVars, searchVars, serviceVars,
                   csv_df, resumes, html_resume>>

\* The rows the table holds before the run: written by earlier runs, and a
\* row of candidate 3, whom no export of the model names.
StoredRows ==
    { {},
      {Row(1, "Ann old", "<html>cv old")},
      {Row(1, "Ann old", "<html>cv old"), Row(3, "Cid", "<html>cv D")},
      {Row(2, "Bob old", "<html>cv old"), Row(3, "Cid", "<html>cv D")} }

InitDb ==
    /\ candidates \in StoredRows
    /\ table = Ids(candidates)
    /\ csv_df \in CsvExports
    /\ update_result = [kind |-> "none", at |-> "", count |-> 0]
    /\ resumes = <<>>
    /\ html_resume = <<>>
    /\ index = {}
    /\ next_uuid = 1
    /\ IngestIdle
    /\ SearchIdle
    /\ ServiceIdle

NextDb == UpdatePostgresDatabase

SpecDb == InitDb /\ [][NextDb]_vars

(***************************************************************************)
(* utils/utils.py: build_resume_row and its parsers.                       *)
(*                                                                         *)
(* A text is a sequence of tokens: words, the blanks " " and "  " (a run   *)
(* of blanks), the line break NL and "*".  The empty sequence is the empty *)
(* str.  The source's Russian literals are written in Latin letters:       *)
(* Sentinel is its "not specified" literal, SectionHeaders are its          *)
(* section headers, Label its line labels.                                 *)
(*                                                                         *)
(* The markup is given by what BeautifulSoup finds in it (a Dom): for each *)
(* section title, table, row and paragraph the parsers look for, whether   *)
(* it is there and the text it holds.                                      *)
(***************************************************************************)
NL == "NL"
Blanks == {" ", "  ", NL}

Sentinel == "ne ukazano"

\* The six section headers, in the order of the text.
SectionHeaders ==
    <<"=== OBSHCHAYA INFORMACIYA ===", "=== O SEBE ===", "=== OBUCHENIE ===",
      "=== OPYT RABOTY ===", "=== KLYUCHEVYE NAVYKI ===", "=== YAZYKI ===">>

Header ==
    [general |-> SectionHeaders[1], about |-> SectionHeaders[2],
     education |-> SectionHeaders[3], experience |-> SectionHeaders[4],
     skills |-> SectionHeaders[5], languages |-> SectionHeaders[6]]

\* The labels that open the lines of the text.
Label ==
    [id |-> "ID kandidata: ",
     education |-> "Obrazovanie: ",
     desired |-> "Zhelaemaya dolzhnost: ",
     profession |-> "Obshchee nazvanie professii: ",
     last_job |-> "Dolzhnost na poslednem meste: ",
     total |-> "Obshchij opyt raboty: ",
     location |-> "Lokaciya: ",
     about |-> "Opisanie kandidata: ",
     main_edu |-> "Osnovnoe obrazovanie: ",
     add_edu |-> "Dopolnitelnoe obrazovanie: ",
     no_experience |-> "Opyt raboty po mestam: ",
     skills |-> "Spisok klyuchevyh navykov: ",
     languages |-> "Spisok yazykov: "]

RECURSIVE str_lstrip(_)
str_lstrip(t) ==
    IF t # <<>> /\ Head(t) \in Blanks THEN str_lstrip(Tail(t)) ELSE t

RECURSIVE str_rstrip(_)
str_rstrip(t) ==
    IF t # <<>> /\ t[Len(t)] \in Blanks
    THEN str_rstrip(SubSeq(t, 1, Len(t) - 1))
    ELSE t

\* str.strip()
str_strip(t) == str_rstrip(str_lstrip(t))

\* a or b of two str
Or(a, b) == IF a # <<>> THEN a ELSE b

RECURSIVE join(_, _)
\* sep.join(texts)
join(sep, texts) ==
    IF texts = <<>> THEN <<>>
    ELSE IF Len(texts) = 1 THEN texts[1]
    ELSE texts[1] \o sep \o join(sep, Tail(texts))

RECURSIVE split_lines(_)
\* text.split("\n")
split_lines(t) ==
    IF \A j \in 1..Len(t) : t[j] # NL THEN <<t>>
    ELSE LET at == CHOOSE j \in 1..Len(t) :
                      t[j] = NL /\ \A h \in 1..(j - 1) : t[h] # NL
         IN <<SubSeq(t, 1, at - 1)>> \o split_lines(SubSeq(t, at + 1, Len(t)))

RECURSIVE collapse(_)
\* re.sub(r"\s+", " ", text): every run of blanks becomes one blank.
collapse(t) ==
    IF t = <<>> THEN <<>>
    ELSE IF Head(t) \in Blanks
    THEN <<" ">> \o collapse(str_lstrip(t))
    ELSE <<Head(t)>> \o collapse(Tail(t))

\* norm_line(text): blanks collapsed, ends stripped (the texts of the model
\* hold no ".." and no ";", which the other substitutions rewrite).
norm_line(t) == str_strip(collapse(t))

RECURSIVE drop_empty_head(_)
drop_empty_head(ls) ==
    IF ls # <<>> /\ Head(ls) = <<>> THEN drop_empty_head(Tail(ls)) ELSE ls

RECURSIVE drop_empty_tail(_)
drop_empty_tail(ls) ==
    IF ls # <<>> /\ ls[Len(ls)] = <<>>
    THEN drop_empty_tail(SubSeq(ls, 1, Len(ls) - 1))
    ELSE ls

\* norm_multiline(text)
norm_multiline(t) ==
    LET ls == split_lines(t)
        normed == [j \in 1..Len(ls) |-> norm_line(ls[j])]
    IN join(<<NL>>, drop_empty_tail(drop_empty_head(normed)))

\* clean_description(text): the sentinel for an empty text; otherwise "*"
\* removed, line breaks and runs of blanks turned into one blank, the ends
\* stripped.
clean_description(t) ==
    IF t = <<>> THEN <<Sentinel>>
    ELSE str_strip(collapse(SelectSeq(t, LAMBDA x : x # "*")))

\* safe_str(x): "" for None and NaN, else str(x).strip().
safe_str(x) == IF IsNone(x) THEN <<>> ELSE str_strip(Val(x))

\* tag.get_text(strip=True) and tag.get_text(" ", strip=True) of a tag that
\* holds one string.
get_text(t) == str_strip(t)

\* parse_common_info_from_html(soup)
parse_common_info_from_html(dom) ==
    LET desired_position == IF IsNone(dom.title) THEN <<>>
                            ELSE get_text(Val(dom.title))
        location_name == IF IsNone(dom.location) THEN <<>>
                         ELSE get_text(Val(dom.location))
        \* the paragraph that holds both labels, and the two regex groups
        education_short == IF IsNone(dom.summary) THEN <<Sentinel>>
                           ELSE str_strip(Val(dom.summary).education)
        total_exp == IF IsNone(dom.summary) THEN <<Sentinel>>
                     ELSE IF str_strip(Val(dom.summary).total) = <<>>
                     THEN <<Sentinel>>
                     ELSE str_strip(Val(dom.summary).total)
    IN [desired_position |-> Or(desired_position, <<Sentinel>>),
        total_experience |-> Or(total_exp, <<Sentinel>>),
        education_short |-> Or(education_short, <<Sentinel>>),
        location_name |-> location_name]

\* One row of the table of work places with at least two cells.
experience_item(n, tr) ==
    LET length_text == IF IsNone(tr.length) THEN <<>> ELSE get_text(Val(tr.length))
        pos_name == IF IsNone(tr.position) THEN <<>> ELSE get_text(Val(tr.position))
        comment_text == clean_description(IF IsNone(tr.comment) THEN <<>>
                                          ELSE Val(tr.comment))
        header == <<ToString(n), ". Dolzhnost: ">> \o Or(pos_name, <<Sentinel>>)
                  \o <<". Dlitelnost: ">> \o Or(length_text, <<Sentinel>>)
        descr == IF comment_text # <<>> /\ comment_text # <<Sentinel>>
                 THEN <<"Opisanie: ">> \o comment_text
                 ELSE <<"Opisanie: ", Sentinel>>
    IN header \o <<". ">> \o descr

\* parse_experience_from_html(soup)
parse_experience_from_html(dom) ==
    IF dom.experience.found # "ok"
    THEN <<Label.no_experience, Sentinel>>
    ELSE LET trs == SelectSeq(dom.experience.items, LAMBDA tr : tr.tds >= 2)
             items == [n \in 1..Len(trs) |-> experience_item(n, trs[n])]
         IN IF items = <<>> THEN <<Label.no_experience, Sentinel>>
            ELSE join(<<NL>>, items)

\* parse_skills_from_html(soup)
parse_skills_from_html(dom) ==
    IF dom.skills.found # "ok" THEN <<Sentinel>>
    ELSE LET skills == SelectSeq([j \in 1..Len(dom.skills.items) |->
                                     get_text(dom.skills.items[j])],
                                 LAMBDA x : x # <<>>)
         IN IF skills = <<>> THEN <<Sentinel>> ELSE join(<<", ">>, skills)

\* parse_about_from_html(soup)
parse_about_from_html(dom) ==
    IF dom.about.found # "ok" THEN <<Sentinel>>
    ELSE LET texts == SelectSeq([j \in 1..Len(dom.about.items) |->
                                    get_text(dom.about.items[j])],
                                LAMBDA x : x # <<>>)
         IN IF texts = <<>> THEN <<Sentinel>>
            ELSE clean_description(join(<<NL>>, texts))

\* One row of the education table: "specialty - qualification".
education_item(tr) ==
    IF Len(tr.p_list) >= 3
    THEN LET specialty == get_text(tr.p_list[2])
             qualification == get_text(tr.p_list[3])
         IN IF specialty # <<>> \/ qualification # <<>>
            THEN <<specialty \o <<" ", "-", " ">> \o qualification>>
            ELSE <<>>
    ELSE IF Len(tr.p_list) = 2
    THEN <<get_text(tr.p_list[2]) \o <<" ", "-", " ">>>>
    ELSE <<>>

RECURSIVE flatten(_)
flatten(lists) ==
    IF lists = <<>> THEN <<>> ELSE Head(lists) \o flatten(Tail(lists))

\* parse_education_core_from_html(soup)
parse_education_core_from_html(dom) ==
    IF dom.education.found # "ok" THEN <<>>
    ELSE LET trs == SelectSeq(dom.education.items, LAMBDA tr : tr.tds >= 2)
         IN flatten([j \in 1..Len(trs) |-> education_item(trs[j])])

\* parse_additional_education_specialties_from_html(soup)
parse_additional_education_specialties_from_html(dom) ==
    IF dom.additional.found # "ok" THEN <<>>
    ELSE LET trs == SelectSeq(dom.additional.items, LAMBDA tr : tr.tds >= 2)
             spec(tr) == IF Len(tr.p_list) > 1 /\ get_text(tr.p_list[2]) # <<>>
                         THEN <<get_text(tr.p_list[2])>>
                         ELSE <<>>
         IN flatten([j \in 1..Len(trs) |-> spec(trs[j])])

\* parse_languages_from_html(soup): the paragraphs after the title, each
\* with the language (its own strings) and the level (its span).
parse_languages_from_html(dom) ==
    IF dom.languages.found # "ok" THEN <<Sentinel>>
    ELSE LET entry(p) ==
                 LET lang_only == str_strip(p.lang)
                     level == get_text(p.level)
                 IN IF lang_only = <<>> THEN <<>>
                    ELSE IF level # <<>> THEN <<lang_only \o <<" ">> \o level>>
                    ELSE <<lang_only>>
             langs == flatten([j \in 1..Len(dom.languages.items) |->
                                  entry(dom.languages.items[j])])
         IN IF langs = <<>> THEN <<Sentinel>> ELSE join(<<", ">>, langs)

RECURSIVE unique(_, _)
\* Lines 447-464: the stripped, non-empty items, each once, first seen first.
unique(items, seen) ==
    IF items = <<>> THEN <<>>
    ELSE LET item_norm == str_strip(Head(items))
         IN IF item_norm # <<>> /\ item_norm \notin seen
            THEN <<item_norm>> \o unique(Tail(items), seen \cup {item_norm})
            ELSE unique(Tail(items), seen)

\* Lines 415-425, the condition: not html or pd.isna(html), without the
\* test for NaN.
html_is_absent_without_isna(html) == html.kind = "None" \/ html.kind = "empty"

\* Line 415: not html or pd.isna(html)
html_is_absent(html) == html.kind \in {"None", "NaN", "empty"}

\* Lines 403-413
profession_full(profession_name_1, profession_name_2) ==
    IF profession_name_1 # <<>>
    THEN IF profession_name_2 # <<>>
         THEN profession_name_1 \o <<", ">> \o profession_name_2
         ELSE profession_name_1
    ELSE <<Sentinel>>

\* Lines 416-425: the text returned for a row without markup.  The literal
\* of the last position has no line break at its end: the next label
\* follows it on the same line.
fallback_text(id_, profession, last_job_position_name, location_name_estaff) ==
    <<Header.general, NL>>
    \o <<Label.id>> \o id_ \o <<NL>>
    \o <<Label.education, Sentinel, NL>>
    \o <<Label.desired, Sentinel, NL>>
    \o <<Label.profession>> \o profession \o <<NL>>
    \o <<Label.last_job>> \o Or(last_job_position_name, <<Sentinel>>)
    \o <<Label.total, Sentinel, NL>>
    \o <<Label.location>> \o Or(location_name_estaff, <<Sentinel>>)

\* A section of the markup: its title (h2) is missing, or the table or
\* paragraph after it is, or both are there with these rows or paragraphs.
Section(found, items) == [found |-> found, items |-> items]

\* BeautifulSoup(str(html), "html.parser"): what the parsers find.  str(nan)
\* is the text "nan", in which they find nothing.
NoDom ==
    LET no_h2 == Section("no_h2", <<>>)
    IN [title |-> None, location |-> None, summary |-> None, about |-> no_h2,
        experience |-> no_h2, skills |-> no_h2, languages |-> no_h2,
        education |-> no_h2, additional |-> no_h2]

BeautifulSoup(html) == IF html.kind = "str" THEN html.dom ELSE NoDom

\* Lines 427-507: the text built from the markup.
markup_text(id_, profession, last_job_position_name, location_name_estaff, soup) ==
    LET common == parse_common_info_from_html(soup)
        about_text == parse_about_from_html(soup)
        experience_text == parse_experience_from_html(soup)
        skills_text == parse_skills_from_html(soup)
        languages_text == parse_languages_from_html(soup)
        main_edu_unique == unique(parse_education_core_from_html(soup), {})
        add_edu_unique ==
            unique(parse_additional_education_specialties_from_html(soup), {})
        main_education_final ==
            IF main_edu_unique # <<>> THEN join(<<"; ">>, main_edu_unique)
            ELSE <<Sentinel>>
        add_education_final ==
            IF add_edu_unique # <<>> THEN join(<<"; ">>, add_edu_unique)
            ELSE <<Sentinel>>
        parts ==
            << <<Header.general>>,
               <<Label.id>> \o id_,
               <<Label.education>> \o common.education_short,
               <<Label.desired>> \o Or(common.desired_position, <<Sentinel>>),
               <<Label.profession>> \o profession,
               <<Label.last_job>> \o Or(last_job_position_name, <<Sentinel>>),
               <<Label.total>> \o Or(common.total_experience, <<Sentinel>>),
               <<Label.location>> \o Or(location_name_estaff,
                                    Or(common.location_name, <<Sentinel>>)),
               <<NL, Header.about>>,
               <<Label.about>> \o Or(about_text, <<Sentinel>>),
               <<NL, Header.education>>,
               <<Label.main_edu>> \o main_education_final,
               <<Label.add_edu>> \o add_education_final,
               <<NL, Header.experience>>,
               experience_text,
               <<NL, Header.skills>>,
               <<Label.skills>> \o Or(skills_text, <<Sentinel>>),
               <<NL, Header.languages>>,
               <<Label.languages>> \o Or(languages_text, <<Sentinel>>) >>
    IN norm_multiline(join(<<NL>>, parts))

\* build_resume_row(row)
build_resume_row(row) ==
    LET id_ == safe_str(row.id)
        profession == profession_full(safe_str(row.profession_name_1),
                                      safe_str(row.profession_name_2))
        last_job_position_name == safe_str(row.last_job_position_name)
        location_name_estaff == safe_str(row.location_name)
    IN IF html_is_absent(row.html)
       THEN fallback_text(id_, profession, last_job_position_name,
                          location_name_estaff)
       ELSE markup_text(id_, profession, last_job_position_name,
                        location_name_estaff, BeautifulSoup(row.html))

\* A resume with every section.
FullDom ==
    [title |-> Some(<<"Data", " ", "engineer">>),
     location |-> Some(<<"Brest">>),
     summary |-> Some([education |-> <<"higher">>, total |-> <<"5 let">>]),
     about |-> Section("ok", << <<"team", "  ", "player">> >>),
     experience |->
        Section("ok", << [tds |-> 2, length |-> Some(<<"2 goda">>),
                          position |-> Some(<<"Developer">>),
                          comment |-> Some(<<"*", "ETL", NL, "SQL">>)] >>),
     skills |-> Section("ok", << <<"Python">>, <<"SQL">> >>),
     languages |->
        Section("ok", << [lang |-> <<"English">>, level |-> <<"B2">>] >>),
     education |->
        Section("ok", << [tds |-> 2,
                          p_list |-> << <<"BSU">>, <<"Physics">>,
                                        <<"Master">> >>] >>),
     additional |->
        Section("ok", << [tds |-> 2,
                          p_list |-> << <<"Courses">>, <<"ML">> >>] >>)]

\* The markup of the model: a full and an empty resume, each with one
\* section changed to something else a section can hold (a title that is
\* blank or holds a line break and a header, empty rows and paragraphs, rows
\* with one cell, an education row with one, two or three paragraphs).
Doms ==
    LET bases == {FullDom, NoDom}
        no_h2 == Section("no_h2", <<>>)
        no_body == Section("no_body", <<>>)
        TitleGiven == {None, Some(<<" ">>),
                       Some(<<"Dev", NL, Header.languages>>)}
        LocationGiven == {None, Some(<<"Minsk">>)}
        SummaryGiven == {None, Some([education |-> <<>>, total |-> <<>>])}
        AboutGiven ==
            {no_h2, Section("ok", <<>>), Section("ok", << <<"*">> >>),
             Section("ok", << <<>>, <<"open", NL, "minded">> >>)}
        ExperienceGiven ==
            {no_h2, no_body, Section("ok", <<>>),
             Section("ok", << [tds |-> 1, length |-> None, position |-> None,
                               comment |-> None] >>),
             Section("ok", << [tds |-> 2, length |-> None, position |-> None,
                               comment |-> None],
                              [tds |-> 2, length |-> Some(<<"1 god">>),
                               position |-> Some(<<"QA">>),
                               comment |-> Some(<<"*">>)] >>)}
        SkillsGiven ==
            {no_h2, no_body, Section("ok", <<>>),
             Section("ok", << <<>>, <<" ">> >>)}
        LanguagesGiven ==
            {no_h2, Section("ok", <<>>),
             Section("ok", << [lang |-> <<>>, level |-> <<"C1">>] >>),
             Section("ok", << [lang |-> <<"German">>, level |-> <<>>],
                              [lang |-> <<>>, level |-> <<>>] >>)}
        edu(tds, p_list) == Section("ok", << [tds |-> tds, p_list |-> p_list] >>)
        EducationGiven ==
            {no_h2, no_body, Section("ok", <<>>),
             edu(1, << <<"BSU">>, <<"Physics">> >>),
             edu(2, << <<"BSU">> >>),
             edu(2, << <<"BSU">>, <<>>, <<>> >>),
             edu(2, << <<"BSU">>, <<>> >>),
             Section("ok", << [tds |-> 2,
                               p_list |-> << <<"BSU">>, <<"Physics">> >>],
                              [tds |-> 2,
                               p_list |-> << <<"BSU">>, <<"Physics">> >>] >>)}
        AdditionalGiven ==
            {no_h2, no_body,
             edu(2, << <<"Courses">> >>),
             edu(2, << <<"Courses">>, <<" ">> >>)}
    IN bases
       \cup {[d EXCEPT !.title = v] : d \in bases, v \in TitleGiven}
       \cup {[d EXCEPT !.location = v] : d \in bases, v \in LocationGiven}
       \cup {[d EXCEPT !.summary = v] : d \in bases, v \in SummaryGiven}
       \cup {[d EXCEPT !.about = v] : d \in bases, v \in AboutGiven}
       \cup {[d EXCEPT !.experience = v] : d \in bases, v \in ExperienceGiven}
       \cup {[d EXCEPT !.skills = v] : d \in bases, v \in SkillsGiven}
       \cup {[d EXCEPT !.languages = v] : d \in bases, v \in LanguagesGiven}
       \cup {[d EXCEPT !.education = v] : d \in bases, v \in EducationGiven}
       \cup {[d EXCEPT !.additional = v] : d \in bases, v \in AdditionalGiven}

\* The cell html of a row: None, NaN, the empty str or markup.
Htmls ==
    {[kind |-> k, dom |-> NoDom] : k \in {"None", "NaN", "empty"}}
    \cup {[kind |-> "str", dom |-> d] : d \in Doms}

\* The rows of the DataFrame: id is the table's primary key and always
\* there; the other flat fields can be None, blank or a text.
ResumeRows ==
    [id : {Some(<<"7">>)},
     profession_name_1 : {None, Some(<<"Engineer">>)},
     profession_name_2 : {None, Some(<<"Analyst">>)},
     last_job_position_name : {None, Some(<<"Developer">>), Some(<<" ">>)},
     location_name : {None, Some(<<"Minsk", "  ", "city">>)},
     html : Htmls]

\* df.apply(build_resume_row, axis=1): the call for the next row.
ApplyBuildResumeRow ==
    /\ Len(html_resume) < Len(resumes)
    /\ html_resume' = Append(html_resume,
                             build_resume_row(resumes[Len(html_resume) + 1]))
    /\ UNCHANGED <<storeVars, ingestVars, searchVars, serviceVars, candidates,
                   csv_df, update_result, resumes>>

InitRow ==
    /\ resumes \in {<<row>> : row \in ResumeRows}
    /\ html_resume = <<>>
    /\ candidates = {}
    /\ csv_df = <<>>
    /\ update_result = [kind |-> "none", at |-> "", count |-> 0]
    /\ table = {}
    /\ index = {}
    /\ next_uuid = 1
    /\ IngestIdle
    /\ SearchIdle
    /\ ServiceIdle

NextRow == ApplyBuildResumeRow

SpecRow == InitRow /\ [][NextRow]_vars

(***************************************************************************)
(* Claims about the refresh job, checked under Spec.                       *)
(***************************************************************************)
CallsOfKind(kind) == {j \in 1..Len(calls) : calls[j].kind = kind}

\* The resume the log belongs to has ended, and how.
LoggedItemEnded == calls_of >= 1 /\ Len(item_status) >= calls_of
LoggedItemStatus == item_status[calls_of].status

RECURSIVE SuccessMetadata(_)
\* The metadata of the items that ended in Success, in input order.
SuccessMetadata(statuses) ==
    IF statuses = <<>> THEN <<>>
    ELSE IF Head(statuses).status = "Success"
         THEN <<Head(statuses).metadata>> \o SuccessMetadata(Tail(statuses))
         ELSE SuccessMetadata(Tail(statuses))

ValidMetadata == {ModelDump(t) : t \in {u \in RawOutputs : ParseOk(u)}}

\* C1: re-indexing a candidate_id replaces its previous point: when a refresh
\* writes a point for a candidate_id the index already holds a point for, the
\* old point is gone afterwards, so that the index never holds two points of
\* one candidate_id.
C1_ReindexReplaces ==
    [][\A p \in index :
          (\E q \in index' \ index :
               q.metadata.candidate_id = p.metadata.candidate_id)
          => p \notin index']_vars

\* C2: the repair call is issued once per resume and never repeats: when the
\* first response and the repaired output both fail the strict parse, no
\* further chat-model call is made for the resume (no second extraction
\* call, no second repair call).
C2_RepairNeverRepeats ==
    /\ Cardinality(CallsOfKind("repair")) <= 1
    /\ ( /\ Len(calls) >= 2
         /\ calls[1] = [kind |-> "extract", outcome |-> "unparseable"]
         /\ calls[2] = [kind |-> "repair", outcome |-> "unparseable"] )
       => Len(calls) = 2

\* C3: with no transport failure, a first response that fails the strict
\* parse and a repair response that parses end process_resume in Success,
\* with the validated metadata, after exactly 2 chat-model calls: the
\* extraction call, then the repair call.
C3_RepairSucceedsInTwoCalls ==
    ( /\ Len(calls) >= 2
      /\ calls[1] = [kind |-> "extract", outcome |-> "unparseable"]
      /\ calls[2] = [kind |-> "repair", outcome |-> "parsed"] )
    => /\ Len(calls) = 2
       /\ LoggedItemEnded
       /\ LoggedItemStatus = "Success"
       /\ item_status[calls_of].metadata \in ValidMetadata

C3_Witness ==
    /\ calls = << [kind |-> "extract", outcome |-> "unparseable"],
                  [kind |-> "repair", outcome |-> "parsed"] >>
    /\ LoggedItemEnded
    /\ LoggedItemStatus = "Success"

\* C4: every chat-model invocation is retried on its own, at most 3 times and
\* only after a transport failure: after a transport failure of the repair
\* invocation the next call is the repair invocation again, an extraction
\* call is repeated only after its own transport failure, and neither
\* invocation is attempted more than 3 times for one resume.
C4_InvocationsRetriedIndependently ==
    /\ \A j \in 1..(Len(calls) - 1) :
          /\ calls[j] = [kind |-> "repair", outcome |-> "transport"]
                => calls[j + 1].kind = "repair"
          /\ calls[j + 1].kind = "extract"
                => calls[j] = [kind |-> "extract", outcome |-> "transport"]
    /\ Cardinality(CallsOfKind("extract")) <= MaxAttempts
    /\ Cardinality(CallsOfKind("repair")) <= MaxAttempts

\* C5: a failed item never aborts the batch: the resumes are attempted once
\* each in input order, the loop goes on after an item that ended in Failed,
\* and parsed_results is exactly the metadata of the items that ended in
\* Success, in input order.
C5_BatchSurvivesItemFailure ==
    /\ Len(item_status) <= Len(df)
    /\ \A j \in 1..Len(item_status) : item_status[j].row = df[j]
    /\ pc \in {"extract", "repair"} => Len(item_status) = pos - 1
    /\ Len(item_status) < Len(df) => pc \in {"extract", "repair"}
    /\ parsed_results = SuccessMetadata(item_status)

C5_Witness ==
    /\ pc = "convert"
    /\ Len(df) = 2
    /\ Len(item_status) = 2
    /\ item_status[1].status = "Failed"
    /\ item_status[2].status = "Success"
    /\ parsed_results = <<item_status[2].metadata>>

\* C16: the metadata of every item that succeeded carries the id of the row
\* whose resume was sent to the model, and so does every document made of
\* it; an answer that names another candidate_id is not accepted for the row.
C16_MetadataCarriesRecordId ==
    /\ \A j \in 1..Len(item_status) :
          item_status[j].status = "Success" =>
             item_status[j].metadata.candidate_id = item_status[j].row
    /\ \A j \in 1..Len(documents) :
          Val(documents[j].metadata.candidate_id) \in Range(df)

\* C17: check_connection raises whenever the store did not answer status ok,
\* so that no write reaches the collection and no search returns matches
\* after a health check that did not confirm ok.
C17_NoStoreAccessAfterFailedCheck ==
    [][(index' # index \/ docs_with_scores' # docs_with_scores)
          => health' = "ok"]_vars

\* C24: in a refresh no write reaches the collection before every resume of
\* the batch has ended its extraction and the health check has confirmed ok;
\* when no valid document is left, or the health check raises, the job fails
\* and the collection stays as it was.
C24_WriteOnlyAfterBatchAndCheck ==
    [][ /\ index' # index =>
             /\ pc = "upsert"
             /\ Len(item_status) = Len(df)
             /\ health' = "ok"
        /\ (pc = "convert" /\ convert_to_documents(parsed_results) = <<>>) =>
             index' = index /\ job_result' = "failed"
        /\ (pc = "upsert" /\ health' = "unreachable") =>
             index' = index /\ job_result' = "failed" ]_vars

\* C25: the extraction of one resume ends in Success or Failed after at most
\* 6 chat-model calls, extraction and repair calls and retries together:
\* a call is only ever made while fewer than 6 were made for the resume, and
\* at most 3 of them are extraction calls and at most 3 repair calls.
C25_AtMostSixCallsPerResume ==
    /\ Len(calls) <= 2 * MaxAttempts
    /\ Cardinality(CallsOfKind("extract")) <= MaxAttempts
    /\ Cardinality(CallsOfKind("repair")) <= MaxAttempts
    /\ attempt <= MaxAttempts
    /\ (pc \in {"extract", "repair"} /\ calls_of = pos
           /\ ~(pc = "extract" /\ attempt = 1))
          => Len(calls) < 2 * MaxAttempts
    /\ \A j \in 1..Len(item_status) :
          item_status[j].status \in {"Success", "Failed"}
    /\ (LoggedItemEnded /\ Len(calls) = 2 * MaxAttempts)
          => pc \notin {"repair"} /\ attempt = 1

C25_Witness ==
    /\ Len(calls) = 2 * MaxAttempts
    /\ LoggedItemEnded
    /\ LoggedItemStatus = "Failed"
    /\ Len(df) = 2
    /\ pc = "extract"

(***************************************************************************)
(* Claims about the accepted metadata, checked under SpecParse.            *)
(***************************************************************************)
\* The metadata process_resume returned for the items that succeeded.
AcceptedMetadata ==
    {item_status[j].metadata :
        j \in {h \in 1..Len(item_status) : item_status[h].status = "Success"}}

\* C14: every output accepted as CandidateMetadata has its grade in the
\* enumeration or null, every language level in its enumeration or null,
\* experience_years null or at least 0, and an embedding_text that is a
\* string and not empty; an output that breaks one of these rules (the
\* empty grade, the empty level and the empty text among them) is rejected.
C14_AcceptedMetadataValid ==
    \A m \in AcceptedMetadata :
       /\ IsNone(m.grade) \/ Val(m.grade) \in Grades
       /\ \A j \in 1..Len(m.languages) :
             IsNone(m.languages[j]) \/ Val(m.languages[j]) \in Levels
       /\ IsNone(m.experience_years) \/ Val(m.experience_years) >= 0
       /\ IsStr(m.embedding_text) /\ Val(m.embedding_text) # ""

\* C15: the embedding_text of every accepted CandidateMetadata, and the
\* content of every point written from it, contains neither the fullname nor
\* the mobile_phone nor the email of the record the resume came from.
C15_NoPersonalDataInText ==
    /\ \A j \in 1..Len(item_status) :
          item_status[j].status = "Success" =>
             Substrings(Val(item_status[j].metadata.embedding_text))
                \cap {Fullname(item_status[j].row),
                      MobilePhone(item_status[j].row),
                      Email(item_status[j].row)} = {}
    /\ \A p \in index :
          Substrings(p.page_content)
             \cap {Fullname(Val(p.metadata.candidate_id)),
                   MobilePhone(Val(p.metadata.candidate_id)),
                   Email(Val(p.metadata.candidate_id))} = {}

(***************************************************************************)
(* Claims about convert_to_documents, checked under SpecConvert.           *)
(***************************************************************************)
\* The entry is one the claim counts in M: empty, no dict, without
\* embedding_text, or with an embedding_text that is no string.
Skipped(e) ==
    \/ e.type = "empty"
    \/ e.type # "dict"
    \/ IsNone(e.embedding_text)
    \/ ~IsStr(e.embedding_text)

\* The positions of the entries that are not skipped, and the i-th of them.
KeptPositions(entries) == {j \in 1..Len(entries) : ~Skipped(entries[j])}
KeptPosition(entries, i) ==
    CHOOSE j \in KeptPositions(entries) :
       Cardinality({h \in KeptPositions(entries) : h < j}) = i - 1

\* C13: convert_to_documents on N entries of which M are skipped returns
\* N - M documents in input order, the i-th made of the i-th entry that is
\* not skipped: page_content is its embedding_text, metadata its other
\* fields; it raises ValueError if and only if N - M = 0.
C13_ConvertKeepsValidEntries ==
    [][pc = "convert" =>
         LET N == Len(parsed_results)
             M == Cardinality({j \in 1..N : Skipped(parsed_results[j])})
         IN /\ Len(documents') = N - M
            /\ \A i \in 1..Len(documents') :
                  LET e == parsed_results[KeptPosition(parsed_results, i)]
                  IN /\ documents'[i].page_content = Val(e.embedding_text)
                     /\ documents'[i].metadata =
                           [candidate_id |-> Some(e.candidate_id),
                            experience_years |-> e.experience_years,
                            grade |-> e.grade,
                            languages |-> e.languages]
            /\ (pc' = "idle" /\ job_result' = "failed") <=> (N - M = 0)
            /\ pc' = "upsert" <=> (N - M > 0)]_vars

C13_Witness ==
    /\ pc = "upsert"
    /\ Len(parsed_results) = 3
    /\ parsed_results[1].type = "other"
    /\ parsed_results[2].embedding_text = NonString
    /\ parsed_results[3].candidate_id = 2
    /\ Len(documents) = 1
    /\ documents[1].page_content = "java team lead"

(***************************************************************************)
(* Claims about the collection status, checked under SpecStatus.           *)
(***************************************************************************)
\* C18: get_collection_info reports a missing collection as exists = false
\* with points_count = 0 and does not raise; for a collection that exists it
\* returns exists = true with the number of points the store holds; what it
\* raises for is never a missing collection.
C18_MissingCollectionIsNoError ==
    /\ info.answer = "missing" =>
          ~info.raised /\ ~info.exists /\ info.points_count = 0
    /\ info.answer = "found" =>
          /\ ~info.raised
          /\ info.exists
          /\ info.points_count = Cardinality(index)
    /\ info.raised => info.answer \notin {"missing", "found", "none"}

C18_Witness ==
    /\ info.answer = "missing"
    /\ ~info.raised
    /\ ~info.exists
    /\ info.points_count = 0

(***************************************************************************)
(* Claims about a search request, checked under SpecSearch.                *)
(***************************************************************************)
\* The chat model answered the evaluation prompt.
Answered == spc = "done" /\ response.wrap # "none"

\* The answer holds a list under one of the three shapes: it is a list, an
\* object with a list under candidates, or an object without the key
\* candidates one of whose values is a list.
HoldsList(v) ==
    \/ IsList(v)
    \/ IsDict(v) /\ HasKey(v, "candidates") /\ IsList(Get(v, "candidates"))
    \/ IsDict(v) /\ ~HasKey(v, "candidates")
          /\ \E j \in 1..Len(v.vals) : IsList(v.vals[j])

\* That list: the entries the model returned, in its order.
AnsweredList(v) ==
    IF ~HoldsList(v) THEN <<>>
    ELSE IF IsList(v) THEN v.items
    ELSE IF HasKey(v, "candidates") THEN Get(v, "candidates").items
    ELSE LET lists == {j \in 1..Len(v.vals) : IsList(v.vals[j])}
         IN v.vals[CHOOSE j \in lists : \A h \in lists : j <= h].items

AllEntriesValid(v) ==
    \A j \in 1..Len(AnsweredList(v)) : Validates(AnsweredList(v)[j])

\* e is the element of the result that entry makes.
BuiltFrom(e, entry) ==
    IF e.type = "CandidateEvaluation"
    THEN /\ entry.kind = "dict"
         /\ e.name = entry.name.s
         /\ e.phone = entry.phone.s
         /\ e.location = entry.location.s
         /\ e.hard_skills_score = entry.hard_skills_score.n
         /\ e.domain_skills_score = entry.domain_skills_score.n
         /\ e.relevance_score = entry.relevance_score.n
         /\ e.relevance_explanation = entry.relevance_explanation.s
    ELSE e.raw = entry

\* No match of the vector search has a row in the table.
NoMatchResolves ==
    \A j \in 1..Len(docs_with_scores) :
       LET cid == docs_with_scores[j].doc.metadata.candidate_id
       IN IsNone(cid) \/ Val(cid) \notin table

\* The answer has one of the three shapes, read widely: a list, an object
\* with the key candidates (whatever it holds), or an object one of whose
\* values is a list.
ShapeParsable(v) ==
    \/ IsList(v)
    \/ IsDict(v) /\ HasKey(v, "candidates")
    \/ IsDict(v) /\ \E j \in 1..Len(v.vals) : IsList(v.vals[j])

\* search_with_filter returned (a list, maybe empty).
SearchReturned == spc # "idle" /\ outcome.at # "search"

\* C11: search_with_filter returns at most k matches, all of them points of
\* the collection, best score first; every match has experience_years at or
\* above experience_years_min when that is given, and its grade equal to the
\* requested one when that is given; without a filter nothing is left out
\* for its metadata: the result has k matches, or all points when fewer.
C11_FilteredSearch ==
    SearchReturned =>
       /\ Len(docs_with_scores) <= request.k
       /\ \A j \in 1..Len(docs_with_scores) :
             /\ \E p \in index : /\ p.id = docs_with_scores[j].id
                                 /\ p.metadata = docs_with_scores[j].doc.metadata
             /\ \A h \in 1..(j - 1) :
                   docs_with_scores[h].score >= docs_with_scores[j].score
             /\ ~IsNone(request.experience_years_min) =>
                   /\ ~IsNone(docs_with_scores[j].doc.metadata.experience_years)
                   /\ Val(docs_with_scores[j].doc.metadata.experience_years)
                         >= Val(request.experience_years_min)
             /\ ~IsNone(request.grade) =>
                   docs_with_scores[j].doc.metadata.grade = request.grade
       /\ (IsNone(request.experience_years_min) /\ IsNone(request.grade)) =>
             Len(docs_with_scores) = Min(request.k, Cardinality(index))

C11_Witness ==
    /\ spc = "searched"
    /\ request.experience_years_min = Some(3)
    /\ request.grade = Some("Senior")
    /\ Len(docs_with_scores) = 2
    /\ \E p \in index : p.metadata.grade = Some("Lead")
    /\ \E p \in index : p.metadata.experience_years = Some(2)
    /\ \E j \in 1..2 : docs_with_scores[j].doc.metadata.experience_years = Some(7)

\* C6: when the answer has none of the three shapes, or an entry of its list
\* is no valid CandidateEvaluation, search_candidates raises and returns
\* nothing, not even a part of the list.
C6_UnparsableAnswerFailsRequest ==
    ( /\ Answered
      /\ \/ ~ShapeParsable(response.value)
         \/ ~AllEntriesValid(response.value) )
    => outcome.kind = "raised" /\ outcome.value = <<>>

\* C7: search_candidates returns [] without raising and without a chat-model
\* call when the vector search returned no match and when none of the
\* matches resolves to a row (no candidate_id, or an id the table lacks);
\* the chat model is called only with at least one resolved match.
C7_EmptyResultWithoutModelCall ==
    /\ ( /\ spc = "done"
         /\ outcome.at \notin {"search", "db"}
         /\ NoMatchResolves )
       => /\ outcome.kind = "returned"
          /\ outcome.value = <<>>
          /\ llm_calls = 0
    /\ spc = "resolved" => ~NoMatchResolves /\ llm_calls = 0

C7_Witness ==
    /\ spc = "done"
    /\ Len(docs_with_scores) = 2
    /\ \E j \in 1..2 : IsNone(docs_with_scores[j].doc.metadata.candidate_id)
    /\ \E j \in 1..2 : ~IsNone(docs_with_scores[j].doc.metadata.candidate_id)
    /\ NoMatchResolves
    /\ outcome.kind = "returned"
    /\ outcome.value = <<>>
    /\ llm_calls = 0

\* C8: the parser accepts a list of evaluation objects written bare or in a
\* fenced block (with or without the json tag), and an object holding such a
\* list under candidates or, without that key, under its first list-valued
\* key, and returns the evaluations of that list; it rejects prose without
\* JSON and every value that holds no list (a scalar, an object with no list
\* value).
C8_AcceptedAndRejectedShapes ==
    /\ ( /\ Answered
         /\ response.wrap \in {"bare", "fenced_json", "fenced"}
         /\ HoldsList(response.value)
         /\ AllEntriesValid(response.value) )
       => /\ outcome.kind = "returned"
          /\ outcome.value =
                [j \in 1..Len(AnsweredList(response.value)) |->
                    CandidateEvaluation(AnsweredList(response.value)[j])]
    /\ ( /\ Answered
         /\ ~HoldsList(response.value) )
       => outcome = [kind |-> "raised", at |-> "parse", value |-> <<>>]

\* C9: every element search_candidates returns is a CandidateEvaluation with
\* name, phone, location and explanation and with its three scores whole
\* numbers in 1..10; an entry of the model's list that is no valid
\* evaluation object is never returned.
C9_OnlyValidEvaluationsReturned ==
    outcome.kind = "returned" =>
       \A j \in 1..Len(outcome.value) :
          /\ outcome.value[j].type = "CandidateEvaluation"
          /\ outcome.value[j].hard_skills_score \in 1..10
          /\ outcome.value[j].domain_skills_score \in 1..10
          /\ outcome.value[j].relevance_score \in 1..10

\* C10: the returned list keeps the order of the model's list: element i of
\* the result is made from entry i of the list the model returned, whatever
\* the scores.
C10_ModelOrderKept ==
    (Answered /\ outcome.kind = "returned")
    => /\ Len(outcome.value) = Len(AnsweredList(response.value))
       /\ \A j \in 1..Len(outcome.value) :
             BuiltFrom(outcome.value[j], AnsweredList(response.value)[j])

C10_Witness ==
    /\ Answered
    /\ outcome.kind = "returned"
    /\ Len(outcome.value) = 2
    /\ outcome.value[1].name = "Bob"
    /\ outcome.value[2].name = "Ann"
    /\ outcome.value[1].relevance_score < outcome.value[2].relevance_score

\* The matches of the vector search that have a candidate_id whose row the
\* table holds, in the order of the search.
ResolvedMatches ==
    SelectSeq(docs_with_scores,
              LAMBDA m : /\ ~IsNone(m.doc.metadata.candidate_id)
                         /\ Val(m.doc.metadata.candidate_id) \in table)

\* The request got past the look-up of the rows.
RowsLoaded == spc = "resolved" \/ (spc = "done" /\ outcome.at \notin {"search", "db"})

\* C26: a search with at least one resolved match makes exactly one
\* chat-model call; the contexts given to it are one per resolved match, none
\* for a match without candidate_id or without a row, in the order of the
\* vector search; a match that does not resolve never makes the request
\* raise: a request raises only in the search, the load of the table, the
\* model call or the parsing of its answer.
C26_OneCallWithResolvedContexts ==
    /\ llm_calls <= 1
    /\ (RowsLoaded /\ docs_with_scores # <<>>) =>
          /\ Len(candidates_contexts) = Len(ResolvedMatches)
          /\ \A j \in 1..Len(ResolvedMatches) :
                /\ candidates_contexts[j].page_content
                      = ResolvedMatches[j].doc.page_content
                /\ candidates_contexts[j].name
                      = Fullname(Val(ResolvedMatches[j].doc.metadata.candidate_id))
    /\ (spc = "done" /\ RowsLoaded /\ ResolvedMatches # <<>>) => llm_calls = 1
    /\ llm_calls = 1 => ResolvedMatches # <<>>
    /\ spc = "resolved" => llm_calls = 0
    /\ outcome.kind = "raised" =>
          /\ outcome.at \in {"search", "db", "llm", "parse"}
          /\ outcome.at \in {"llm", "parse"} => ResolvedMatches # <<>>

C26_Witness ==
    /\ spc = "done"
    /\ outcome.kind = "returned"
    /\ llm_calls = 1
    /\ Len(docs_with_scores) = 2
    /\ IsNone(docs_with_scores[1].doc.metadata.candidate_id)
         \/ Val(docs_with_scores[1].doc.metadata.candidate_id) \notin table
    /\ Len(ResolvedMatches) = 1
    /\ candidates_contexts
         = <<build_candidate_context(docs_with_scores[2].doc,
                 Val(docs_with_scores[2].doc.metadata.candidate_id))>>

\* C27: the bare JSON array is tried first: an answer whose whole content is
\* a JSON array of valid evaluation objects is parsed as it stands and
\* accepted, also when a string inside it holds a fence marker; a fence marker
\* inside a string changes nothing: the answer is read as the same value
\* written bare.
C27_BareArrayTriedFirst ==
    /\ ( /\ Answered
         /\ response.wrap \in {"bare", "fence_in_string"}
         /\ IsList(response.value)
         /\ AllEntriesValid(response.value) )
       => /\ outcome.kind = "returned"
          /\ Len(outcome.value) = Len(response.value.items)
          /\ \A j \in 1..Len(outcome.value) :
                outcome.value[j] = CandidateEvaluation(response.value.items[j])
    /\ ( /\ Answered
         /\ response.wrap = "fence_in_string" )
       => LET bare == parse_llm_response(Render("bare", response.value))
          IN IF bare.raised THEN outcome.kind = "raised"
             ELSE outcome = Returned(bare.value)

\* total_found of VacancySearchResponse: len(candidates).
total_found(evaluations) == Len(evaluations)

\* C28: search_candidates never returns more evaluations than the resolved
\* matches it sent to the model, which are never more than k; total_found is
\* that number.
C28_ResultWithinResolvedMatches ==
    outcome.kind = "returned" =>
       /\ total_found(outcome.value) = Len(outcome.value)
       /\ Len(outcome.value) <= Len(candidates_contexts)
       /\ Len(candidates_contexts) <= request.k

(***************************************************************************)
(* Claims about the running service, checked under SpecService.            *)
(***************************************************************************)
\* C12: once a document with experience_years = 5 is in the collection (the
\* refresh task wrote it for candidate 1), a search with
\* experience_years_min = 3, no grade and k at least the number of points
\* returns it among its matches.
C12_IndexedDocumentIsFound ==
    [][( /\ spc = "idle"
         /\ spc' # "idle"
         /\ outcome'.at # "search"
         /\ request'.experience_years_min = Some(3)
         /\ IsNone(request'.grade)
         /\ request'.k >= Cardinality(index) )
       => \A p \in index :
             p.metadata.experience_years = Some(5) =>
                \E j \in 1..Len(docs_with_scores') :
                   /\ docs_with_scores'[j].id = p.id
                   /\ docs_with_scores'[j].doc.metadata = p.metadata]_vars

C12_Witness ==
    /\ spc = "searched"
    /\ request.experience_years_min = Some(3)
    /\ IsNone(request.grade)
    /\ request.k >= Cardinality(index)
    /\ \E t \in 1..Len(tasks) : tasks[t].pc = "done"
    /\ \E p \in index :
          /\ p.metadata.candidate_id = Some(1)
          /\ p.metadata.experience_years = Some(5)
          /\ \E j \in 1..Len(docs_with_scores) : docs_with_scores[j].id = p.id

\* C19: no two chat-model calls for the same resume are in progress at the
\* same time, whatever the interleaving, a refresh started while an earlier
\* one still runs included.
C19_NoConcurrentCallsForOneResume ==
    \A a, b \in 1..Len(tasks) :
       (a # b /\ InCall(tasks[a]) /\ InCall(tasks[b]))
          => tasks[a].df[tasks[a].pos] # tasks[b].df[tasks[b].pos]

\* C20: a search request never waits for a refresh task: as long as it has
\* not ended, its next step can be taken whatever the tasks are doing; and
\* no step of search_candidates, however it ends, changes the collection,
\* the table candidates or a task.
C20_SearchReadOnlyAndNotBlocked ==
    /\ [](spc # "done" => ENABLED SearchStep)
    /\ [][searchVars' # searchVars =>
            /\ index' = index
            /\ next_uuid' = next_uuid
            /\ table' = table
            /\ tasks' = tasks]_vars

C20_Witness ==
    /\ spc = "done"
    /\ outcome.kind = "returned"
    /\ Len(outcome.value) = 1
    /\ \E t \in 1..Len(tasks) : InCall(tasks[t])
    /\ \E t \in 1..Len(tasks) : tasks[t].pc = "done"

(***************************************************************************)
(* Claims about the table candidates, checked under SpecDb.                *)
(***************************************************************************)
\* The records of the export that carry a recognisable resume, in order.
Recognised ==
    SelectSeq(csv_df.rows,
              LAMBDA r : r.data.type # "none"
                         /\ ResumeMarkers \subseteq r.data.markers)

RecognisedIds == {Recognised[j].id : j \in 1..Len(Recognised)}

\* The last of the records with a recognisable resume that has this id.
LastOf(id) ==
    LET at == {j \in 1..Len(Recognised) : Recognised[j].id = id}
    IN Recognised[CHOOSE j \in at : \A h \in at : h <= j]

C29_InsertAllOrNothing ==
    [][ /\ update_result'.kind = "raised" =>
             /\ candidates' = candidates
             /\ table' = table
             /\ update_result'.at \in {"load", "columns", "connect", "execute",
                                       "commit"}
        /\ ( /\ update_result'.kind # "none"
             /\ csv_df.files > 0
             /\ ~((columns \ {"html"}) \subseteq csv_df.columns) ) =>
             update_result' = [kind |-> "raised", at |-> "columns", count |-> 0]
        /\ update_result'.kind = "returned" =>
             \A j \in 1..Len(preprocess_data(csv_df).rows) :
                \E r \in candidates' : r.id = preprocess_data(csv_df).rows[j].id
      ]_vars

C29_Witness ==
    /\ update_result.kind = "raised"
    /\ update_result.at = "commit"
    /\ csv_df.rows = <<Record(1, "Ann", Data("str", "<html>cv A", ResumeMarkers)),
                       Record(2, "Bob", Data("str", "<html>cv C", ResumeMarkers))>>
    /\ candidates = {Row(1, "Ann old", "<html>cv old")}

(***************************************************************************)
(* Claims about build_resume_row, checked under SpecRow.                   *)
(***************************************************************************)
LineLabels == {Label[f] : f \in DOMAIN Label}

\* What the text t shows after label: the tokens up to the next label or
\* line break.
ValueAfter(t, label) ==
    IF \A j \in 1..Len(t) : t[j] # label THEN <<"no such label">>
    ELSE LET at == CHOOSE j \in 1..Len(t) :
                      t[j] = label /\ \A h \in 1..(j - 1) : t[h] # label
             stops == {j \in (at + 1)..Len(t) : t[j] \in LineLabels \cup {NL}}
             end == IF stops = {} THEN Len(t)
                    ELSE (CHOOSE j \in stops : \A h \in stops : j <= h) - 1
         IN SubSeq(t, at + 1, end)

\* A flat field or a text of the markup gives nothing: it is None, empty or
\* blank.
Blank(t) == \A j \in 1..Len(t) : t[j] \in Blanks
Missing(x) == IsNone(x) \/ Blank(Val(x))

\* The value without the blanks around it.
Given(x) ==
    LET t == Val(x)
        inner == {j \in 1..Len(t) : t[j] \notin Blanks}
        lo == CHOOSE j \in inner : \A h \in inner : j <= h
        hi == CHOOSE j \in inner : \A h \in inner : h <= j
    IN SubSeq(t, lo, hi)

Shown(x) == IF Missing(x) THEN <<Sentinel>> ELSE Given(x)

\* The header lines of a text, in order.
HeaderLines(t) ==
    SelectSeq(split_lines(t),
              LAMBDA l : Len(l) = 1 /\ l[1] \in Range(SectionHeaders))

TwoCells(section) == SelectSeq(section.items, LAMBDA tr : tr.tds >= 2)

\* C30: for a row with markup, whatever the markup holds, the text has the
\* six section headers as lines of their own, once each and in their order,
\* and shows the sentinel for every field and section for which the markup
\* gives no text.
C30_SixHeadersAndSentinels ==
    \A j \in 1..Len(html_resume) :
       LET row == resumes[j]
           out == html_resume[j]
           dom == row.html.dom
       IN row.html.kind = "str" =>
             /\ HeaderLines(out) =
                   [h \in 1..Len(SectionHeaders) |-> <<SectionHeaders[h]>>]
             /\ Missing(dom.title) => ValueAfter(out, Label.desired) = <<Sentinel>>
             /\ IsNone(dom.summary) =>
                   /\ ValueAfter(out, Label.education) = <<Sentinel>>
                   /\ ValueAfter(out, Label.total) = <<Sentinel>>
             /\ (Missing(row.location_name) /\ Missing(dom.location)) =>
                   ValueAfter(out, Label.location) = <<Sentinel>>
             /\ (\A h \in 1..Len(dom.about.items) : Blank(dom.about.items[h])) =>
                   ValueAfter(out, Label.about) = <<Sentinel>>
             /\ (\A h \in 1..Len(TwoCells(dom.education)) :
                    \A g \in 2..Len(TwoCells(dom.education)[h].p_list) :
                       Blank(TwoCells(dom.education)[h].p_list[g])) =>
                   ValueAfter(out, Label.main_edu) = <<Sentinel>>
             /\ (\A h \in 1..Len(TwoCells(dom.additional)) :
                    \A g \in 2..Len(TwoCells(dom.additional)[h].p_list) :
                       Blank(TwoCells(dom.additional)[h].p_list[g])) =>
                   ValueAfter(out, Label.add_edu) = <<Sentinel>>
             /\ TwoCells(dom.experience) = <<>> =>
                   ValueAfter(out, Label.no_experience) = <<Sentinel>>
             /\ (\A h \in 1..Len(dom.skills.items) : Blank(dom.skills.items[h])) =>
                   ValueAfter(out, Label.skills) = <<Sentinel>>
             /\ (\A h \in 1..Len(dom.languages.items) :
                    Blank(dom.languages.items[h].lang)) =>
                   ValueAfter(out, Label.languages) = <<Sentinel>>

====
